---------------------------- MODULE Spec2Model ----------------------------
(***************************************************************************)
(* Model of the bet_prediction repository: the fixture store filled by     *)
(* api_football.sync, and the ml_gemini feature pipeline that reads it.    *)
(*                                                                         *)
(* Conventions.                                                            *)
(*  - Python None / SQL NULL of an optional non-negative integer column    *)
(*    is the integer None (-1); every comparison guards it the way SQL     *)
(*    does (NULL < x is not true).                                         *)
(*  - Numbers that the pipeline averages are fixed-point integers in       *)
(*    units of 1/Scale (Scale = 10^4, the precision round(v, 4) keeps);    *)
(*    an unrounded average is the exact fraction <<sum, count>> and the    *)
(*    missing average is <<>>.                                             *)
(*  - Text is a sequence of one-character strings.                         *)
(***************************************************************************)
EXTENDS Integers, Sequences, FiniteSets, TLC

VARIABLES
    games,            \* rows of api_football.models.Game
    game_statistics,  \* rows of api_football.models.GameStatistics, in pk order
    payload_cache,    \* the process-wide lru_cache of _statistics_payload
    request_count,    \* APIRequestLog.request_count of today
    files,            \* the dataset and model files, by path
    last              \* what the last call returned to its caller

vars == <<games, game_statistics, payload_cache, request_count, files, last>>

None == 0 - 1

\* float("nan"): the one float that is no number (the numbers modelled are >= 0)
NaN == 0 - 4
Inf == 0 - 5

\* int(float("inf")): the OverflowError that _to_int lets through to its caller
OverflowRaised == 0 - 6

-----------------------------------------------------------------------------
(* Bounds of the model. *)

MaxGames == 2       \* fixtures stored when windows are selected
MaxKickoff == 2     \* kickoff instants 1..MaxKickoff
MaxN == 2           \* window depth asked of a selector called on its own
MaxHistory == 4     \* fixtures of one pairing stored when averages are taken

-----------------------------------------------------------------------------
(* api_football.models *)

StatusChoices == {"TBD", "NS", "LIVE", "FT", "AET", "PST", "CANC", "AWD", "WO"}

FINISHED_STATUSES == {"FT", "AET", "AWD", "WO"}

is_finished(game) == game.status \in {"FT", "AET", "AWD", "WO"}

Min(a, b) == IF a <= b THEN a ELSE b
Max(a, b) == IF a >= b THEN a ELSE b

-----------------------------------------------------------------------------
(* ml_gemini.features: the historical window selectors *)

\* a faulty cutoff: kickoff__lte, which lets a fixture of the cutoff instant through
KickoffLe(game, before_dt) == game.kickoff # None /\ game.kickoff <= before_dt

\* kickoff__lt=before_dt: SQL comparison, never true of a NULL kickoff
KickoffLt(game, before_dt) == game.kickoff # None /\ game.kickoff < before_dt

HomeGamesFilter(team_id, before_dt, competition_id) ==
    {g \in games : /\ g.home_team_id = team_id
                   /\ g.competition_id = competition_id
                   /\ KickoffLt(g, before_dt)
                   /\ g.status \in FINISHED_STATUSES}

AwayGamesFilter(team_id, before_dt, competition_id) ==
    {g \in games : /\ g.away_team_id = team_id
                   /\ g.competition_id = competition_id
                   /\ KickoffLt(g, before_dt)
                   /\ g.status \in FINISHED_STATUSES}

\* a faulty head-to-head filter: the meetings in one venue configuration only
H2HOneVenue(home_team_id, away_team_id, before_dt, competition_id) ==
    HomeGamesFilter(home_team_id, before_dt, competition_id)
    \cap AwayGamesFilter(away_team_id, before_dt, competition_id)

H2HFilter(home_team_id, away_team_id, before_dt, competition_id) ==
    {g \in games : /\ \/ (g.home_team_id = home_team_id /\ g.away_team_id = away_team_id)
                      \/ (g.home_team_id = away_team_id /\ g.away_team_id = home_team_id)
                   /\ g.competition_id = competition_id
                   /\ KickoffLt(g, before_dt)
                   /\ g.status \in FINISHED_STATUSES}

\* .order_by("-kickoff"): every sequence of the rows that is descending in
\* kickoff; rows of equal kickoff come in whatever order the database likes.
RECURSIVE OrderByKickoffDesc(_)
OrderByKickoffDesc(rows) ==
    IF rows = {} THEN {<<>>}
    ELSE LET latest == {g \in rows : \A h \in rows : h.kickoff <= g.kickoff}
         IN  UNION {{<<g>> \o rest : rest \in OrderByKickoffDesc(rows \ {g})} : g \in latest}

\* a faulty slice: the whole queryset
Unsliced(seq, n) == seq

\* queryset[:n]
Slice(seq, n) == SubSeq(seq, 1, Min(n, Len(seq)))

\* The results a call may return: one per order the database may choose.
last_n_home_games(team_id, before_dt, competition_id, n) ==
    {Slice(o, n) : o \in OrderByKickoffDesc(HomeGamesFilter(team_id, before_dt, competition_id))}

last_n_away_games(team_id, before_dt, competition_id, n) ==
    {Slice(o, n) : o \in OrderByKickoffDesc(AwayGamesFilter(team_id, before_dt, competition_id))}

last_n_h2h(home_team_id, away_team_id, before_dt, competition_id, n) ==
    {Slice(o, n) : o \in OrderByKickoffDesc(H2HFilter(home_team_id, away_team_id, before_dt, competition_id))}

-----------------------------------------------------------------------------
(* Text and numbers *)

Scale == 10000

UpperCase == <<"A","B","C","D","E","F","G","H","I","J","K","L","M",
               "N","O","P","Q","R","S","T","U","V","W","X","Y","Z">>
LowerCase == <<"a","b","c","d","e","f","g","h","i","j","k","l","m",
               "n","o","p","q","r","s","t","u","v","w","x","y","z">>
Digits == <<"0","1","2","3","4","5","6","7","8","9">>

LowerTable == [c \in {UpperCase[i] : i \in 1..26} |->
                  LowerCase[CHOOSE i \in 1..26 : UpperCase[i] = c]] @@ <<>>

LowerChar(c) == IF c \in DOMAIN LowerTable THEN LowerTable[c] ELSE c

\* str.lower()
Lower(s) == [i \in 1..Len(s) |-> LowerChar(s[i])]

\* str.strip()
RECURSIVE LStrip(_)
LStrip(s) == IF s # <<>> /\ Head(s) = " " THEN LStrip(Tail(s)) ELSE s

RECURSIVE RStrip(_)
RStrip(s) == IF s # <<>> /\ s[Len(s)] = " " THEN RStrip(SubSeq(s, 1, Len(s) - 1)) ELSE s

Strip(s) == RStrip(LStrip(s))

\* str.replace(c, "")
RECURSIVE RemoveChar(_, _)
RemoveChar(s, c) ==
    IF s = <<>> THEN <<>>
    ELSE (IF Head(s) = c THEN <<>> ELSE <<Head(s)>>) \o RemoveChar(Tail(s), c)

\* k in t
Contains(t, k) ==
    \E i \in 0..(Len(t) - Len(k)) : SubSeq(t, i + 1, i + Len(k)) = k

DigitTable ==
    [c \in {Digits[i] : i \in 1..10} |-> (CHOOSE i \in 1..10 : Digits[i] = c) - 1] @@ <<>>

IsDigit(c) == c \in DOMAIN DigitTable
DigitValue(c) == DigitTable[c]
AllDigits(s) == \A i \in 1..Len(s) : IsDigit(s[i])

RECURSIVE DigitsValue(_)
DigitsValue(s) ==
    IF s = <<>> THEN 0
    ELSE 10 * DigitsValue(SubSeq(s, 1, Len(s) - 1)) + DigitValue(s[Len(s)])

\* The digits after the decimal point, in units of 1/Scale (four digits kept).
FractionValue(s) == DigitsValue(SubSeq(s \o <<"0","0","0","0">>, 1, 4))

\* float(text) of a text of digits with an optional sign and point (exponents and
\* digit separators are not modelled), which ignores surrounding blanks: [kind |-> "num", val |-> fixed-point value],
\* [kind |-> "nan"], [kind |-> "inf"], or [kind |-> "ValueError"].
PyFloat(text) ==
    LET v == Strip(text)
        signed == v # <<>> /\ Head(v) \in {"-", "+"}
        sign == IF v # <<>> /\ Head(v) = "-" THEN 0 - 1 ELSE 1
        body == IF signed THEN Tail(v) ELSE v
        word == Lower(body)
        dots == {i \in 1..Len(body) : body[i] = "."}
    IN  IF word \in {<<"n","a","n">>} THEN [kind |-> "nan"]
        ELSE IF word \in {<<"i","n","f">>, <<"i","n","f","i","n","i","t","y">>}
        THEN [kind |-> "inf"]
        ELSE IF dots = {}
        THEN IF body # <<>> /\ AllDigits(body)
             THEN [kind |-> "num", val |-> sign * DigitsValue(body) * Scale]
             ELSE [kind |-> "ValueError"]
        ELSE IF Cardinality(dots) = 1
        THEN LET d == CHOOSE i \in dots : TRUE
                 whole == SubSeq(body, 1, d - 1)
                 frac == SubSeq(body, d + 1, Len(body))
             IN  IF AllDigits(whole) /\ AllDigits(frac) /\ Len(whole) + Len(frac) > 0
                 THEN [kind |-> "num",
                       val |-> sign * (DigitsValue(whole) * Scale + FractionValue(frac))]
                 ELSE [kind |-> "ValueError"]
        ELSE [kind |-> "ValueError"]

(* JSON values stored in GameStatistics.statistics *)
JStr(s) == [t |-> "str", s |-> s]
JNum(n) == [t |-> "num", n |-> n]
JNull == [t |-> "null"]

\* _to_float: None, or the float: a number in units of 1/Scale, float's nan as NaN
\* and float's inf as Inf
to_float(value) ==
    IF value.t = "null" THEN None
    ELSE IF value.t = "num" THEN value.n * Scale
    ELSE LET v == RemoveChar(Strip(value.s), "%")
             f == PyFloat(v)
         IN  IF v = <<>> THEN None
             ELSE IF f.kind = "num" THEN f.val
             ELSE IF f.kind = "ValueError" THEN None
             ELSE IF f.kind = "nan" THEN NaN
             ELSE Inf

\* int(x) of a fixed-point x: truncation toward zero, again in units of 1/Scale
Truncate(x) == IF x >= 0 THEN (x \div Scale) * Scale ELSE 0 - (((0 - x) \div Scale) * Scale)

\* _to_int: int(float(v)); int() of nan raises ValueError, which is caught, and of
\* inf raises OverflowError, which is not: OverflowRaised
to_int(value) ==
    IF value.t = "null" THEN None
    ELSE IF value.t = "num" THEN value.n * Scale
    ELSE LET v == RemoveChar(Strip(value.s), "%")
             f == PyFloat(v)
         IN  IF v = <<>> THEN None
             ELSE IF f.kind = "num" THEN Truncate(f.val)
             ELSE IF f.kind = "inf" THEN OverflowRaised
             ELSE None

RECURSIVE SumSeq(_)
SumSeq(values) == IF values = <<>> THEN 0 ELSE Head(values) + SumSeq(Tail(values))

\* a faulty average: the sum over the window depth 5, short windows padded with zeros
safe_avg_padded(values) ==
    IF values = <<>> THEN <<>>
    ELSE <<SumSeq(values), 5>>

\* _safe_avg: the exact fraction <<sum, count>>, <<>> for None, <<NaN, 1>> for
\* the nan a sum with a nan in it is, and <<Inf, 1>> for the inf one with an inf is
safe_avg(values) ==
    IF values = <<>> THEN <<>>
    ELSE IF \E i \in 1..Len(values) : values[i] = NaN THEN <<NaN, 1>>
    ELSE IF \E i \in 1..Len(values) : values[i] = Inf THEN <<Inf, 1>>
    ELSE <<SumSeq(values), Len(values)>>

\* round(n / d) to the nearest integer, an exact tie to the even one (d > 0)
RoundDiv(n, d) ==
    LET a == IF n >= 0 THEN n ELSE 0 - n
        q == a \div d
        r == a % d
        m == IF 2 * r > d \/ (2 * r = d /\ q % 2 = 1) THEN q + 1 ELSE q
    IN  IF n >= 0 THEN m ELSE 0 - m

\* _num: round(v, 4) if v is not None else None
num(v) == IF v = <<>> THEN None ELSE RoundDiv(v[1], v[2])

\* _safe_ratio of two averages
safe_ratio(numerator, denominator) ==
    IF numerator = <<>> \/ denominator = <<>> THEN <<>>
    ELSE IF denominator[1] = 0 THEN <<>>
    ELSE LET n == numerator[1] * denominator[2] * Scale
             d == numerator[2] * denominator[1]
         IN  IF d > 0 THEN <<n, d>> ELSE <<0 - n, 0 - d>>

-----------------------------------------------------------------------------
(* ml_gemini.features: the statistics accessor *)

SHOTS_ON_TARGET_KEYWORDS ==
    <<<<"s","h","o","t","s"," ","o","n"," ","g","o","a","l">>,
      <<"s","h","o","t","s"," ","o","n"," ","t","a","r","g","e","t">>>>
SHOTS_TOTAL_KEYWORDS ==
    <<<<"t","o","t","a","l"," ","s","h","o","t","s">>,
      <<"s","h","o","t","s"," ","t","o","t","a","l">>>>
POSSESSION_KEYWORDS == <<<<"p","o","s","s","e","s","s","i","o","n">>>>
BIG_CHANCES_KEYWORDS == <<<<"b","i","g"," ","c","h","a","n","c","e","s">>>>

\* GameStatistics.objects.filter(game_id=, team_id=).values_list("statistics").first() or []
\* (Meta.ordering is game, team: the first matching row in pk order)
StatisticsRead(game_id, team_id) ==
    LET hits == {i \in 1..Len(game_statistics) :
                    game_statistics[i].game_id = game_id /\ game_statistics[i].team_id = team_id}
    IN  IF hits = {} THEN <<>>
        ELSE game_statistics[CHOOSE i \in hits : \A j \in hits : i <= j].statistics

\* _statistics_payload under @lru_cache: a key once computed is answered from
\* the cache (maxsize 200000 is never reached by the stores modelled here)
statistics_payload(cache, game_id, team_id) ==
    IF <<game_id, team_id>> \in DOMAIN cache
    THEN cache[<<game_id, team_id>>]
    ELSE StatisticsRead(game_id, team_id)

\* the cache after the keys of `keys` have been asked for
CacheAfter(cache, keys) ==
    [k \in (DOMAIN cache) \cup keys |->
        IF k \in DOMAIN cache THEN cache[k] ELSE StatisticsRead(k[1], k[2])]

\* _stat_value: the value of the first item whose type matches, [t |-> "none"] if none
NoValue == [t |-> "none"]

\* any(k in t for k in lowered)
AnyKeywordIn(t, lowered) == \E i \in 1..Len(lowered) : Contains(t, lowered[i])

\* the test _stat_value makes of one item's type:
\* t = str(type).strip().lower(); any(k.lower() in t for k in keywords)
TypeMatches(type, keywords) ==
    AnyKeywordIn(Lower(Strip(type)), [i \in 1..Len(keywords) |-> Lower(keywords[i])])

\* TypeMatches tabulated once for the types the statistics payloads below carry
STAT_KEYWORDS ==
    {SHOTS_ON_TARGET_KEYWORDS, SHOTS_TOTAL_KEYWORDS, POSSESSION_KEYWORDS, BIG_CHANCES_KEYWORDS}

StatTypes ==
    {<<"S","h","o","t","s"," ","o","n"," ","G","o","a","l">>,
     <<"T","o","t","a","l"," ","S","h","o","t","s">>,
     <<"B","a","l","l"," ","P","o","s","s","e","s","s","i","o","n">>}

TypeMatchTable == [p \in StatTypes \X STAT_KEYWORDS |-> TypeMatches(p[1], p[2])] @@ <<>>

TypeMatchesKnown(type, keywords) ==
    IF <<type, keywords>> \in DOMAIN TypeMatchTable
    THEN TypeMatchTable[<<type, keywords>>]
    ELSE TypeMatches(type, keywords)

\* the value the accessor gives when nothing matches, were it the number 0
StatValueOrZero(statistics_list, keywords) ==
    IF \A i \in 1..Len(statistics_list) : ~TypeMatches(statistics_list[i].type, keywords)
    THEN JNum(0)
    ELSE statistics_list[CHOOSE i \in 1..Len(statistics_list) :
                            /\ TypeMatches(statistics_list[i].type, keywords)
                            /\ \A j \in 1..(i - 1) :
                                  ~TypeMatches(statistics_list[j].type, keywords)].value

\* the items of the list, in order, up to the first whose type matches
RECURSIVE stat_value(_, _)
stat_value(statistics_list, keywords) ==
    IF statistics_list = <<>> THEN NoValue
    ELSE IF TypeMatchesKnown(Head(statistics_list).type, keywords)
    THEN Head(statistics_list).value
    ELSE stat_value(Tail(statistics_list), keywords)

\* _to_float and _to_int tabulated once for the texts the statistics payloads below carry
StatTexts == {<<"4">>, <<"1","2">>, <<"5","5","%">>, <<"0">>, <<>>}

ToFloatTable == [s \in StatTexts |-> to_float(JStr(s))] @@ <<>>
ToIntTable == [s \in StatTexts |-> to_int(JStr(s))] @@ <<>>

to_float_known(value) ==
    IF value.t = "str" /\ value.s \in DOMAIN ToFloatTable
    THEN ToFloatTable[value.s]
    ELSE to_float(value)

to_int_known(value) ==
    IF value.t = "str" /\ value.s \in DOMAIN ToIntTable
    THEN ToIntTable[value.s]
    ELSE to_int(value)

\* _team_stat_for_game: `if raw is None: return None`, then the transform
Transform_to_float(raw) == IF raw.t \in {"none", "null"} THEN None ELSE to_float_known(raw)
Transform_to_int(raw) == IF raw.t \in {"none", "null"} THEN None ELSE to_int_known(raw)

team_stat_for_game_float(cache, game, team_id, keywords) ==
    Transform_to_float(stat_value(statistics_payload(cache, game.pk, team_id), keywords))

\* _team_shots_on_goal_for_game: _team_stat_for_game with transform=_to_int
team_shots_on_goal_for_game(cache, game, team_id) ==
    Transform_to_int(stat_value(statistics_payload(cache, game.pk, team_id),
                                SHOTS_ON_TARGET_KEYWORDS))

\* [x for x in values if x is not None]
RECURSIVE DropNone(_)
DropNone(values) ==
    IF values = <<>> THEN <<>>
    ELSE (IF Head(values) = None THEN <<>> ELSE <<Head(values)>>) \o DropNone(Tail(values))

\* _team_stat_avg(games, lambda g: g.home_team, keywords, _to_float)
team_stat_avg_home(cache, window, keywords) ==
    safe_avg(DropNone([i \in 1..Len(window) |->
        team_stat_for_game_float(cache, window[i], window[i].home_team_id, keywords)]))

\* a faulty average: the statistics of the home side where the away side's are meant
TeamStatAvgOfHomeSide(cache, window, keywords) ==
    safe_avg(DropNone([i \in 1..Len(window) |->
        team_stat_for_game_float(cache, window[i], window[i].home_team_id, keywords)]))

\* _team_stat_avg(games, lambda g: g.away_team, keywords, _to_float)
team_stat_avg_away(cache, window, keywords) ==
    safe_avg(DropNone([i \in 1..Len(window) |->
        team_stat_for_game_float(cache, window[i], window[i].away_team_id, keywords)]))

\* _shots_avg(games, team), local to _get_game_features_raw
shots_avg(cache, window, team_id) ==
    safe_avg(DropNone([i \in 1..Len(window) |->
        team_shots_on_goal_for_game(cache, window[i], team_id)]))

-----------------------------------------------------------------------------
(* ml_gemini.features: the feature extractor *)

\* `x or 0` of a goal count, as a fixed-point number
GoalsOrZero(x) == IF x = None THEN 0 ELSE x * Scale

HomeGoals(window) == [i \in 1..Len(window) |-> GoalsOrZero(window[i].home_goals)]
AwayGoals(window) == [i \in 1..Len(window) |-> GoalsOrZero(window[i].away_goals)]
TotalGoals(window) ==
    [i \in 1..Len(window) |->
        GoalsOrZero(window[i].home_goals) + GoalsOrZero(window[i].away_goals)]

\* the return value None of a feature function
NoRow == [none |-> TRUE]

\* the guards of _get_game_features_raw that return None before any query
RawRefuses(game, for_prediction, league_agnostic) ==
    \/ game.competition_id = None
    \/ game.kickoff = None
    \/ ~league_agnostic
    \/ (~for_prediction /\ ~is_finished(game))

\* The five windows one featurization may be handed by its five queries.
WindowChoices(game) ==
    [hh5 : last_n_home_games(game.home_team_id, game.kickoff, game.competition_id, 5),
     aa5 : last_n_away_games(game.away_team_id, game.kickoff, game.competition_id, 5),
     hh10 : last_n_home_games(game.home_team_id, game.kickoff, game.competition_id, 10),
     aa10 : last_n_away_games(game.away_team_id, game.kickoff, game.competition_id, 10),
     h2h : last_n_h2h(game.home_team_id, game.away_team_id, game.kickoff, game.competition_id, 3)]

\* The (game, team) keys _statistics_payload is asked for by one featurization.
SeqRange(seq) == {seq[i] : i \in 1..Len(seq)}

StatKeys(game, w) ==
    {<<g.pk, game.home_team_id>> : g \in SeqRange(w.hh5) \cup SeqRange(w.hh10)}
    \cup {<<g.pk, game.away_team_id>> : g \in SeqRange(w.aa5) \cup SeqRange(w.aa10)}
    \cup {<<g.pk, g.home_team_id>> : g \in SeqRange(w.hh5) \cup SeqRange(w.aa5)}
    \cup {<<g.pk, g.away_team_id>> : g \in SeqRange(w.hh5) \cup SeqRange(w.aa5)}

\* The values computed by the body shared, line for line, by
\* _get_game_features_raw and get_game_features, before they are rounded:
\* from the windows w the five queries returned and the payload cache.
FeatureValues(game, w, cache) ==
    LET home_attack_5 == safe_avg(HomeGoals(w.hh5))
        away_attack_5 == safe_avg(AwayGoals(w.aa5))
        home_shots_5 == shots_avg(cache, w.hh5, game.home_team_id)
        away_shots_5 == shots_avg(cache, w.aa5, game.away_team_id)
    IN  [home_attack_form_5 |-> home_attack_5,
         away_attack_form_5 |-> away_attack_5,
         home_defensive_fragility_5 |-> safe_avg(AwayGoals(w.hh5)),
         away_defensive_fragility_5 |-> safe_avg(HomeGoals(w.aa5)),
         home_shots_on_goal_avg_5 |-> home_shots_5,
         away_shots_on_goal_avg_5 |-> away_shots_5,
         home_attack_form_10 |-> safe_avg(HomeGoals(w.hh10)),
         away_attack_form_10 |-> safe_avg(AwayGoals(w.aa10)),
         home_defensive_fragility_10 |-> safe_avg(AwayGoals(w.hh10)),
         away_defensive_fragility_10 |-> safe_avg(HomeGoals(w.aa10)),
         home_shots_on_goal_avg_10 |-> shots_avg(cache, w.hh10, game.home_team_id),
         away_shots_on_goal_avg_10 |-> shots_avg(cache, w.aa10, game.away_team_id),
         h2h_total_goals_avg_3 |-> safe_avg(TotalGoals(w.h2h)),
         home_shots_total_avg_5 |-> team_stat_avg_home(cache, w.hh5, SHOTS_TOTAL_KEYWORDS),
         away_shots_total_avg_5 |-> team_stat_avg_away(cache, w.aa5, SHOTS_TOTAL_KEYWORDS),
         home_possession_avg_5 |-> team_stat_avg_home(cache, w.hh5, POSSESSION_KEYWORDS),
         away_possession_avg_5 |-> team_stat_avg_away(cache, w.aa5, POSSESSION_KEYWORDS),
         home_big_chances_avg_5 |-> team_stat_avg_home(cache, w.hh5, BIG_CHANCES_KEYWORDS),
         away_big_chances_avg_5 |-> team_stat_avg_away(cache, w.aa5, BIG_CHANCES_KEYWORDS),
         home_shots_allowed_on_target_avg_5 |->
             team_stat_avg_away(cache, w.hh5, SHOTS_ON_TARGET_KEYWORDS),
         away_shots_allowed_on_target_avg_5 |->
             team_stat_avg_home(cache, w.aa5, SHOTS_ON_TARGET_KEYWORDS),
         home_conversion_rate_5 |-> safe_ratio(home_attack_5, home_shots_5),
         away_conversion_rate_5 |-> safe_ratio(away_attack_5, away_shots_5)]

POISSON_FEATURE_COLUMNS ==
    <<"home_attack_form_5", "away_attack_form_5",
      "home_defensive_fragility_5", "away_defensive_fragility_5",
      "home_shots_on_goal_avg_5", "away_shots_on_goal_avg_5",
      "home_attack_form_10", "away_attack_form_10",
      "home_defensive_fragility_10", "away_defensive_fragility_10",
      "home_shots_on_goal_avg_10", "away_shots_on_goal_avg_10",
      "h2h_total_goals_avg_3">>

XG_FEATURE_COLUMNS ==
    <<"home_shots_total_avg_5", "away_shots_total_avg_5",
      "home_possession_avg_5", "away_possession_avg_5",
      "home_big_chances_avg_5", "away_big_chances_avg_5",
      "home_shots_allowed_on_target_avg_5", "away_shots_allowed_on_target_avg_5",
      "home_conversion_rate_5", "away_conversion_rate_5">>

FeatureNames == SeqRange(POISSON_FEATURE_COLUMNS) \cup SeqRange(XG_FEATURE_COLUMNS)

\* total_goals of _get_game_features_raw
RawTotalGoals(game) ==
    IF is_finished(game)
    THEN (IF game.home_goals = None THEN 0 ELSE game.home_goals)
         + (IF game.away_goals = None THEN 0 ELSE game.away_goals)
    ELSE None

\* a faulty label: over 3 goals instead of over 2.5
RawIsOver3(total_goals) ==
    IF total_goals = None THEN None
    ELSE IF total_goals > 3 THEN 1 ELSE 0

\* is_over_2_5 of _get_game_features_raw: total_goals > 2.5
RawIsOver25(total_goals) ==
    IF total_goals = None THEN None
    ELSE IF 2 * total_goals > 5 THEN 1 ELSE 0

\* The row _get_game_features_raw returns once its guards have passed.
RawRowOf(v, total_goals) ==
    [k \in FeatureNames \cup {"total_goals_actual", "is_over_2_5"} |->
        IF k = "total_goals_actual" THEN total_goals
        ELSE IF k = "is_over_2_5" THEN RawIsOver25(total_goals)
        ELSE num(v[k])]

RawRow(game, w, cache) == RawRowOf(FeatureValues(game, w, cache), RawTotalGoals(game))

\* the guards of get_game_features
DisplayRefuses(game) ==
    \/ game.competition_id = None
    \/ ~is_finished(game)
    \/ game.kickoff = None

\* _fmt of get_game_features: the dash for None
Dash == 0 - 2
fmt(v) == IF v = <<>> THEN Dash ELSE RoundDiv(v[1], v[2])

\* total_goals of get_game_features
DisplayTotalGoals(game) ==
    (IF game.home_goals = None THEN 0 ELSE game.home_goals)
    + (IF game.away_goals = None THEN 0 ELSE game.away_goals)

\* The row get_game_features returns once its guards have passed.
DisplayRowOf(v, total_goals) ==
    [k \in FeatureNames \cup {"total_goals_actual", "is_over_2_5"} |->
        IF k = "total_goals_actual" THEN total_goals
        ELSE IF k = "is_over_2_5" THEN (IF 2 * total_goals > 5 THEN 1 ELSE 0)
        ELSE fmt(v[k])]

DisplayRow(game, w, cache) ==
    DisplayRowOf(FeatureValues(game, w, cache), DisplayTotalGoals(game))

-----------------------------------------------------------------------------
(* The stores the feature pipeline is run on.  Every store below is one that *)
(* sync_fixtures and sync_fixture_statistics can leave behind: they write    *)
(* whatever competition, teams, kickoff, status and goals a payload carries. *)

GameRow(pk, competition_id, home_team_id, away_team_id, kickoff, status, home_goals, away_goals) ==
    [pk |-> pk, api_id |-> pk, competition_id |-> competition_id,
     home_team_id |-> home_team_id, away_team_id |-> away_team_id,
     kickoff |-> kickoff, status |-> status,
     home_goals |-> home_goals, away_goals |-> away_goals]

(* Window stores: up to MaxGames fixtures, each of any competition, pairing, *)
(* kickoff (NULL included) and status of the sets below.  A fixture's pk     *)
(* means nothing to a selector, so the stores are listed up to renaming.     *)
WindowKickoffs == <<None>> \o [i \in 1..MaxKickoff |-> i]
WindowStatuses == <<"NS", "FT", "WO">>
WindowPairings == <<<<1, 1, 2>>, <<1, 2, 1>>, <<1, 1, 3>>, <<2, 1, 2>>>>

WindowKinds == Len(WindowPairings) * Len(WindowKickoffs) * Len(WindowStatuses)

WindowGame(pk, kind) ==
    LET s == WindowStatuses[((kind - 1) % Len(WindowStatuses)) + 1]
        r == (kind - 1) \div Len(WindowStatuses)
        k == WindowKickoffs[(r % Len(WindowKickoffs)) + 1]
        p == WindowPairings[(r \div Len(WindowKickoffs)) + 1]
    IN  GameRow(pk, p[1], p[2], p[3], k, s,
                IF s \in FINISHED_STATUSES THEN pk ELSE None,
                IF s \in FINISHED_STATUSES THEN 0 ELSE None)

WindowStores ==
    UNION {{{WindowGame(i, f[i]) : i \in 1..n} :
              f \in {g \in [1..n -> 1..WindowKinds] : \A i \in 1..(n - 1) : g[i] <= g[i + 1]}} :
           n \in 0..MaxGames}


(* Average stores: one pairing in one competition, fixture i kicking off at  *)
(* instant i, each fixture of one of the kinds below: a status, goal counts  *)
(* (NULL included) and the statistics rows of its home and of its away team  *)
(* (<<>>: no row; <<list>>: one row holding that list).                      *)
StatItem(type, value) == [type |-> type, value |-> JStr(value)]

FullStats ==
    <<StatItem(<<"S","h","o","t","s"," ","o","n"," ","G","o","a","l">>, <<"4">>),
      StatItem(<<"T","o","t","a","l"," ","S","h","o","t","s">>, <<"1","2">>),
      StatItem(<<"B","a","l","l"," ","P","o","s","s","e","s","s","i","o","n">>, <<"5","5","%">>)>>
ZeroShots == <<StatItem(<<"S","h","o","t","s"," ","o","n"," ","G","o","a","l">>, <<"0">>)>>
TotalOnly == <<StatItem(<<"T","o","t","a","l"," ","S","h","o","t","s">>, <<"1","2">>)>>
BlankShots == <<StatItem(<<"S","h","o","t","s"," ","o","n"," ","G","o","a","l">>, <<>>)>>

AverageKinds ==
    <<[status |-> "FT", home_goals |-> 1, away_goals |-> 0,
       home_stats |-> <<FullStats>>, away_stats |-> <<ZeroShots>>],
      [status |-> "AET", home_goals |-> 2, away_goals |-> 1,
       home_stats |-> <<>>, away_stats |-> <<>>],
      [status |-> "WO", home_goals |-> 0, away_goals |-> 0,
       home_stats |-> <<ZeroShots>>, away_stats |-> <<TotalOnly>>],
      [status |-> "AWD", home_goals |-> None, away_goals |-> None,
       home_stats |-> <<BlankShots>>, away_stats |-> <<<<>>>>],
      [status |-> "LIVE", home_goals |-> 2, away_goals |-> 1,
       home_stats |-> <<>>, away_stats |-> <<>>]>>

AverageGame(pk, kind) ==
    GameRow(pk, 1, 1, 2, pk, AverageKinds[kind].status,
            AverageKinds[kind].home_goals, AverageKinds[kind].away_goals)

StatisticsRow(game_id, team_id, statistics) ==
    [game_id |-> game_id, team_id |-> team_id, statistics |-> statistics]

RECURSIVE AverageStatistics(_, _)
AverageStatistics(f, n) ==
    IF n = 0 THEN <<>>
    ELSE AverageStatistics(f, n - 1)
         \o [i \in 1..Len(AverageKinds[f[n]].home_stats) |->
                StatisticsRow(n, 1, AverageKinds[f[n]].home_stats[i])]
         \o [i \in 1..Len(AverageKinds[f[n]].away_stats) |->
                StatisticsRow(n, 2, AverageKinds[f[n]].away_stats[i])]

AverageStores ==
    UNION {{<<{AverageGame(i, f[i]) : i \in 1..n}, AverageStatistics(f, n)>> :
              f \in [1..n -> 1..Len(AverageKinds)]} :
           n \in 0..MaxHistory}

-----------------------------------------------------------------------------
(* Calls of the feature pipeline *)

NoCall == [op |-> "none"]

\* no dataset and no model has been written
NoFiles == <<>>

\* _last_n_home_games(team_id, before_dt, competition_id, n)
CallLastNHomeGames(team_id, before_dt, competition_id, n) ==
    /\ \E result \in last_n_home_games(team_id, before_dt, competition_id, n) :
          last' = [op |-> "last_n_home_games", team_id |-> team_id, other_id |-> team_id,
                   before_dt |-> before_dt, competition_id |-> competition_id,
                   n |-> n, result |-> result]
    /\ UNCHANGED <<games, game_statistics, payload_cache, request_count, files>>

\* _last_n_away_games(team_id, before_dt, competition_id, n)
CallLastNAwayGames(team_id, before_dt, competition_id, n) ==
    /\ \E result \in last_n_away_games(team_id, before_dt, competition_id, n) :
          last' = [op |-> "last_n_away_games", team_id |-> team_id, other_id |-> team_id,
                   before_dt |-> before_dt, competition_id |-> competition_id,
                   n |-> n, result |-> result]
    /\ UNCHANGED <<games, game_statistics, payload_cache, request_count, files>>

\* _last_n_h2h(home_team_id, away_team_id, before_dt, competition_id, n)
CallLastNH2H(home_team_id, away_team_id, before_dt, competition_id, n) ==
    /\ \E result \in last_n_h2h(home_team_id, away_team_id, before_dt, competition_id, n) :
          last' = [op |-> "last_n_h2h", team_id |-> home_team_id, other_id |-> away_team_id,
                   before_dt |-> before_dt, competition_id |-> competition_id,
                   n |-> n, result |-> result]
    /\ UNCHANGED <<games, game_statistics, payload_cache, request_count, files>>

NoWindows == [hh5 |-> <<>>, aa5 |-> <<>>, hh10 |-> <<>>, aa10 |-> <<>>, h2h |-> <<>>]

\* _get_game_features_raw(game, for_prediction, league_agnostic=True)
GetGameFeaturesRaw(game, for_prediction) ==
    /\ IF RawRefuses(game, for_prediction, TRUE)
       THEN /\ last' = [op |-> "get_game_features_raw", game |-> game,
                        for_prediction |-> for_prediction, queried |-> FALSE,
                        windows |-> NoWindows, row |-> NoRow]
            /\ UNCHANGED payload_cache
       ELSE \E w \in WindowChoices(game) :
               /\ last' = [op |-> "get_game_features_raw", game |-> game,
                           for_prediction |-> for_prediction, queried |-> TRUE,
                           windows |-> w, row |-> RawRow(game, w, payload_cache)]
               /\ payload_cache' = CacheAfter(payload_cache, StatKeys(game, w))
    /\ UNCHANGED <<games, game_statistics, request_count, files>>

\* get_game_features(game)
GetGameFeatures(game) ==
    /\ IF DisplayRefuses(game)
       THEN /\ last' = [op |-> "get_game_features", game |-> game,
                        for_prediction |-> FALSE, queried |-> FALSE,
                        windows |-> NoWindows, row |-> NoRow]
            /\ UNCHANGED payload_cache
       ELSE \E w \in WindowChoices(game) :
               /\ last' = [op |-> "get_game_features", game |-> game,
                           for_prediction |-> FALSE, queried |-> TRUE,
                           windows |-> w, row |-> DisplayRow(game, w, payload_cache)]
               /\ payload_cache' = CacheAfter(payload_cache, StatKeys(game, w))
    /\ UNCHANGED <<games, game_statistics, request_count, files>>

\* the stored fixture of primary key pk is featurized
RawFeaturesOf(pk, for_prediction) ==
    \E game \in games : game.pk = pk /\ GetGameFeaturesRaw(game, for_prediction)

DisplayFeaturesOf(pk) ==
    \E game \in games : game.pk = pk /\ GetGameFeatures(game)

-----------------------------------------------------------------------------
(* SpecWin: the window selectors called on their own on the window stores. *)

InitWin ==
    /\ games \in WindowStores
    /\ game_statistics = <<>>
    /\ payload_cache = <<>>
    /\ request_count = 0
    /\ files = NoFiles
    /\ last = NoCall

NextWin ==
    \E before_dt \in 1..(MaxKickoff + 1), n \in 0..MaxN :
        \/ CallLastNHomeGames(1, before_dt, 1, n)
        \/ CallLastNAwayGames(2, before_dt, 1, n)
        \/ CallLastNH2H(1, 2, before_dt, 1, n)

SpecWin == InitWin /\ [][NextWin]_vars

(* SpecFeat: fixtures featurized on the window stores and the average stores. *)

InitFeat ==
    /\ \/ games \in WindowStores /\ game_statistics = <<>>
       \/ \E store \in AverageStores : games = store[1] /\ game_statistics = store[2]
    /\ payload_cache = <<>>
    /\ request_count = 0
    /\ files = NoFiles
    /\ last = NoCall

NextFeat ==
    \E pk \in 1..Max(MaxGames, MaxHistory) :
        \/ \E for_prediction \in BOOLEAN : RawFeaturesOf(pk, for_prediction)
        \/ DisplayFeaturesOf(pk)

SpecFeat == InitFeat /\ [][NextFeat]_vars

-----------------------------------------------------------------------------
(* api_football.client: the daily request quota *)

\* settings.API_FOOTBALL_DAILY_LIMIT (7500 unless configured), kept small here
DAILY_REQUEST_LIMIT == 2

\* remaining_requests_today(), today's APIRequestLog row holding `count`
remaining_requests_today(count) == Max(0, DAILY_REQUEST_LIMIT - count)

\* increment_request_count(): today's row created at 1, or raised by one
increment_request_count(count) == count + 1

-----------------------------------------------------------------------------
(* api_football.sync: what the API answers, and what the sync stores of it *)

MaxFixtures == 1    \* fixture ids 1..MaxFixtures the API answers about
MaxItems == 2       \* items in one answer of the fixtures endpoint

Teams == {1, 2, 3}     \* the stored Team rows
Competitions == {1, 2} \* the stored Competition rows

FixtureItem(api_id, league_id, home_id, away_id, date, status_short, home_goals, away_goals) ==
    [api_id |-> api_id, league_id |-> league_id, home_id |-> home_id, away_id |-> away_id,
     date |-> date, status_short |-> status_short,
     home_goals |-> home_goals, away_goals |-> away_goals]

\* One fixture as the API may report it: any status with any goals.
FixtureItems ==
    UNION {{FixtureItem(a, 1, 1, 2, a, "FT", JNum(2), JNum(1)),
            FixtureItem(a, 1, 1, 2, a, "FT", JNull, JNull),
            FixtureItem(a, 1, 1, 2, a, "LIVE", JNum(1), JNum(0)),
            FixtureItem(a, 9, 1, 2, None, "XX", JNull, JNull),
            FixtureItem(a, 1, 1, 2, a, "AWD", JStr(<<"x">>), JStr(<<"0">>)),
            FixtureItem(a, 1, 1, None, a, "FT", JNum(2), JNum(1))} : a \in 1..MaxFixtures}

\* the answers of the fixtures endpoint: up to MaxItems items
FixtureAnswers == UNION {[1..n -> FixtureItems] : n \in 1..MaxItems}

\* status_short, NS when it is none of Game.Status.choices
StoredStatus(status_short) ==
    IF status_short \in StatusChoices THEN status_short ELSE "NS"

\* home_goals / away_goals: int(value), None when it is None or int() raises
StoredGoals(value) ==
    IF value.t = "null" THEN None
    ELSE IF value.t = "num" THEN value.n
    ELSE IF Strip(value.s) # <<>> /\ AllDigits(Strip(value.s)) THEN DigitsValue(Strip(value.s))
    ELSE None

\* Competition.objects.filter(api_id=comp_id).first()
StoredCompetition(league_id) ==
    IF league_id # None /\ league_id \in Competitions THEN league_id ELSE None

NextPk(rows) == IF rows = {} THEN 1 ELSE 1 + (CHOOSE m \in {g.pk : g \in rows} :
                                                \A g \in rows : g.pk <= m)

\* Game.objects.update_or_create(api_id=api_id, defaults=defaults)
update_or_create_game(rows, api_id, defaults) ==
    LET found == {g \in rows : g.api_id = api_id}
    IN  IF found = {}
        THEN rows \cup {[defaults EXCEPT !.pk = NextPk(rows), !.api_id = api_id]}
        ELSE (rows \ found)
             \cup {[defaults EXCEPT !.pk = g.pk, !.api_id = api_id] : g \in found}

\* one turn of the loop of sync_fixtures: [games, created, updated] after the item
SyncFixtureItem(acc, item) ==
    IF item.api_id = None \/ item.api_id = 0 THEN acc
    ELSE IF item.home_id = None \/ item.away_id = None THEN acc
    ELSE IF item.home_id \notin Teams \/ item.away_id \notin Teams THEN acc
    ELSE LET defaults == GameRow(0, StoredCompetition(item.league_id),
                                 item.home_id, item.away_id, item.date,
                                 StoredStatus(item.status_short),
                                 StoredGoals(item.home_goals), StoredGoals(item.away_goals))
             was_created == \A g \in acc.games : g.api_id # item.api_id
         IN  [games |-> update_or_create_game(acc.games, item.api_id, defaults),
              created |-> acc.created + (IF was_created THEN 1 ELSE 0),
              updated |-> acc.updated + (IF was_created THEN 0 ELSE 1)]

RECURSIVE SyncFixtureItems(_, _)
SyncFixtureItems(acc, raw) ==
    IF raw = <<>> THEN acc
    ELSE SyncFixtureItems(SyncFixtureItem(acc, Head(raw)), Tail(raw))

(* Statistics as the API reports them: per team a list of {type, value},   *)
(* the value a number, a text or null.                                      *)
JList(items) == [t |-> "list", items |-> items]

ApiStat(type, value) == [type |-> type, value |-> value]

TeamStatistics(team_id, statistics) == [team_id |-> team_id, statistics |-> statistics]

ApiFull ==
    <<ApiStat(<<"S","h","o","t","s"," ","o","n"," ","G","o","a","l">>, JNum(4)),
      ApiStat(<<"T","o","t","a","l"," ","S","h","o","t","s">>, JNum(12)),
      ApiStat(<<"B","a","l","l"," ","P","o","s","s","e","s","s","i","o","n">>,
              JStr(<<"5","5","%">>))>>
ApiZero == <<ApiStat(<<"S","h","o","t","s"," ","o","n"," ","G","o","a","l">>, JNum(0))>>
ApiBlank == <<ApiStat(<<"S","h","o","t","s"," ","o","n"," ","G","o","a","l">>, JNull)>>

StatisticsAnswers ==
    {<<>>,
     <<TeamStatistics(1, JList(ApiFull)), TeamStatistics(2, JList(ApiZero))>>,
     <<TeamStatistics(1, JList(ApiZero))>>,
     <<TeamStatistics(None, JList(ApiFull)), TeamStatistics(2, JNull)>>,
     <<TeamStatistics(2, JList(ApiBlank)), TeamStatistics(2, JList(ApiZero))>>}

\* str(n) of a non-negative integer
RECURSIVE PyStrNat(_)
PyStrNat(n) ==
    IF n < 10 THEN <<Digits[n + 1]>>
    ELSE PyStrNat(n \div 10) \o <<Digits[(n % 10) + 1]>>

\* str(s.get("value", "")) if s.get("value") is not None else ""
StoredValue(value) ==
    IF value.t = "null" THEN <<>>
    ELSE IF value.t = "num" THEN PyStrNat(value.n)
    ELSE value.s

\* stats_list as sync_fixture_statistics stores it: [] unless it is a list
StoredStatistics(statistics) ==
    IF statistics.t # "list" THEN <<>>
    ELSE [i \in 1..Len(statistics.items) |->
             [type |-> statistics.items[i].type,
              value |-> JStr(StoredValue(statistics.items[i].value))]]

\* a faulty upsert: a new row whether or not the pair has one
create_statistics(rows, game_id, team_id, statistics) ==
    Append(rows, StatisticsRow(game_id, team_id, statistics))

\* GameStatistics.objects.update_or_create(game=game, team=team, defaults={"statistics": ...})
update_or_create_statistics(rows, game_id, team_id, statistics) ==
    LET found == {i \in 1..Len(rows) : rows[i].game_id = game_id /\ rows[i].team_id = team_id}
    IN  IF found = {}
        THEN Append(rows, StatisticsRow(game_id, team_id, statistics))
        ELSE [i \in 1..Len(rows) |->
                 IF i \in found THEN [rows[i] EXCEPT !.statistics = statistics] ELSE rows[i]]

\* one turn of the loop of sync_fixture_statistics: [rows, created, updated] after the item
SyncStatisticsItem(acc, game, item) ==
    IF item.team_id = None \/ item.team_id = 0 THEN acc
    ELSE IF item.team_id \notin Teams THEN acc
    ELSE LET was_created ==
                 \A i \in 1..Len(acc.rows) :
                     ~(acc.rows[i].game_id = game.pk /\ acc.rows[i].team_id = item.team_id)
         IN  [rows |-> update_or_create_statistics(acc.rows, game.pk, item.team_id,
                                                   StoredStatistics(item.statistics)),
              created |-> acc.created + (IF was_created THEN 1 ELSE 0),
              updated |-> acc.updated + (IF was_created THEN 0 ELSE 1)]

RECURSIVE SyncStatisticsItems(_, _, _)
SyncStatisticsItems(acc, game, raw) ==
    IF raw = <<>> THEN acc
    ELSE SyncStatisticsItems(SyncStatisticsItem(acc, game, Head(raw)), game, Tail(raw))

\* the queryset sync_stats_for_games defaults to: finished fixtures without statistics rows
GamesWithoutStatistics ==
    {g \in games : /\ g.status \in {"FT", "AET", "AWD", "WO"}
                   /\ \A i \in 1..Len(game_statistics) : game_statistics[i].game_id # g.pk}

\* The loop of sync_stats_for_games over `order`, from acc = [rows, count, synced,
\* skipped]: every outcome, one per run of answers the API may give.
RECURSIVE SyncStatsOver(_, _)
SyncStatsOver(order, acc) ==
    IF order = <<>> THEN {acc}
    ELSE IF remaining_requests_today(acc.count) <= 0
    THEN SyncStatsOver(Tail(order), [acc EXCEPT !.skipped = @ + 1])
    ELSE SyncStatsOver(Tail(order), [acc EXCEPT !.count = increment_request_count(@),
                                                !.skipped = @ + 1])
         \cup UNION {SyncStatsOver(Tail(order),
                        [acc EXCEPT !.count = increment_request_count(@),
                                    !.synced = @ + 1,
                                    !.rows = SyncStatisticsItems(
                                                 [rows |-> acc.rows, created |-> 0, updated |-> 0],
                                                 Head(order), raw).rows]) :
                     raw \in StatisticsAnswers}

-----------------------------------------------------------------------------
(* Calls of the sync *)

\* sync_fixtures(league_id, season): the API fails (http_ok false) or answers raw
SyncFixtures(http_ok, raw) ==
    IF remaining_requests_today(request_count) <= 0
    THEN /\ last' = [op |-> "sync_fixtures", raised |-> TRUE, created |-> 0, updated |-> 0]
         /\ UNCHANGED <<games, game_statistics, payload_cache, request_count, files>>
    ELSE /\ request_count' = increment_request_count(request_count)
         /\ IF ~http_ok
            THEN /\ last' = [op |-> "sync_fixtures", raised |-> TRUE,
                             created |-> 0, updated |-> 0]
                 /\ UNCHANGED games
            ELSE LET done == SyncFixtureItems([games |-> games, created |-> 0, updated |-> 0],
                                              raw)
                 IN  /\ games' = done.games
                     /\ last' = [op |-> "sync_fixtures", raised |-> FALSE,
                                 created |-> done.created, updated |-> done.updated]
         /\ UNCHANGED <<game_statistics, payload_cache, files>>

\* sync_fixture_statistics(fixture_api_id)
SyncFixtureStatistics(fixture_api_id, http_ok, raw) ==
    LET found == {g \in games : g.api_id = fixture_api_id}
        failed == [op |-> "sync_fixture_statistics", fixture_api_id |-> fixture_api_id,
                   raw |-> raw, raised |-> TRUE, created |-> 0, updated |-> 0]
    IN  IF remaining_requests_today(request_count) <= 0
        THEN /\ last' = failed
             /\ UNCHANGED <<games, game_statistics, payload_cache, request_count, files>>
        ELSE /\ request_count' = increment_request_count(request_count)
             /\ IF ~http_ok \/ found = {}
                THEN /\ last' = failed
                     /\ UNCHANGED game_statistics
                ELSE LET game == CHOOSE g \in found : TRUE
                         done == SyncStatisticsItems(
                                     [rows |-> game_statistics, created |-> 0, updated |-> 0],
                                     game, raw)
                     IN  /\ game_statistics' = done.rows
                         /\ last' = [op |-> "sync_fixture_statistics",
                                     fixture_api_id |-> fixture_api_id, raw |-> raw,
                                     raised |-> FALSE,
                                     created |-> done.created, updated |-> done.updated]
             /\ UNCHANGED <<games, payload_cache, files>>

\* sync_stats_for_games(queryset=None, limit=limit)
SyncStatsForGames(limit) ==
    /\ \E order \in OrderByKickoffDesc(GamesWithoutStatistics) :
          \E done \in SyncStatsOver(IF limit = None \/ limit = 0 THEN order
                                    ELSE Slice(order, limit),
                                    [rows |-> game_statistics, count |-> request_count,
                                     synced |-> 0, skipped |-> 0]) :
              /\ game_statistics' = done.rows
              /\ request_count' = done.count
              /\ last' = [op |-> "sync_stats_for_games", limit |-> limit,
                          synced |-> done.synced, skipped |-> done.skipped]
    /\ UNCHANGED <<games, payload_cache, files>>

\* date.today() moves on: the day's APIRequestLog row does not exist yet
NewDay ==
    /\ request_count > 0
    /\ request_count' = 0
    /\ last' = [op |-> "new_day"]
    /\ UNCHANGED <<games, game_statistics, payload_cache, files>>

-----------------------------------------------------------------------------
(* Spec: the sync run against an API that answers anything, from empty tables. *)

Init ==
    /\ games = {}
    /\ game_statistics = <<>>
    /\ payload_cache = <<>>
    /\ request_count = 0
    /\ files = NoFiles
    /\ last = NoCall

Next ==
    \/ \E raw \in FixtureAnswers : SyncFixtures(TRUE, raw)
    \/ SyncFixtures(FALSE, <<>>)
    \/ \E fixture_api_id \in 1..MaxFixtures :
          \/ \E raw \in StatisticsAnswers : SyncFixtureStatistics(fixture_api_id, TRUE, raw)
          \/ SyncFixtureStatistics(fixture_api_id, FALSE, <<>>)
    \/ \E limit \in {None, 1} : SyncStatsForGames(limit)
    \/ NewDay

Spec == Init /\ [][Next]_vars

(* SpecPass: featurization passes and statistics syncs in one process. *)

PassStore == {AverageGame(1, 1), AverageGame(2, 2)}

InitPass ==
    /\ games = PassStore
    /\ game_statistics = <<>>
    /\ payload_cache = <<>>
    /\ request_count = 0
    /\ files = NoFiles
    /\ last = NoCall

NextPass ==
    \/ \E fixture_api_id \in 1..MaxFixtures :
          \/ \E raw \in StatisticsAnswers : SyncFixtureStatistics(fixture_api_id, TRUE, raw)
          \/ SyncFixtureStatistics(fixture_api_id, FALSE, <<>>)
    \/ \E limit \in {None, 1} : SyncStatsForGames(limit)
    \/ \E pk \in {g.pk : g \in PassStore}, for_prediction \in BOOLEAN :
          RawFeaturesOf(pk, for_prediction)
    \/ NewDay

SpecPass == InitPass /\ [][NextPass]_vars

-----------------------------------------------------------------------------
(* Properties.  `last` holds the latest call: its arguments and what it      *)
(* returned.                                                                 *)

SelectorOps == {"last_n_home_games", "last_n_away_games", "last_n_h2h"}
FeatureOps == {"get_game_features_raw", "get_game_features"}
WindowNames == {"hh5", "aa5", "hh10", "aa10", "h2h"}

Featurized == last.op \in FeatureOps /\ last.queried

\* a fixture that may contribute to the features of fixture f
Contributes(g, f) ==
    /\ g.status \in {"FT", "AET", "AWD", "WO"}
    /\ g.competition_id = f.competition_id
    /\ g.kickoff # None
    /\ g.kickoff < f.kickoff

\* result holds the first n of the set qualifying, latest kickoff first
IsFirstN(result, qualifying, n) ==
    /\ Len(result) = Min(n, Cardinality(qualifying))
    /\ \A i \in 1..Len(result) : result[i] \in qualifying
    /\ \A i, j \in 1..Len(result) : i < j =>
          /\ result[i] # result[j]
          /\ result[i].kickoff >= result[j].kickoff
    /\ \A g \in qualifying \ SeqRange(result) :
          \A i \in 1..Len(result) : result[i].kickoff >= g.kickoff

\* the fixtures a selector called with these arguments is to choose from
QualifyingHome(team_id, before_dt, competition_id) ==
    {g \in games : /\ g.home_team_id = team_id
                   /\ g.status \in {"FT", "AET", "AWD", "WO"}
                   /\ g.competition_id = competition_id
                   /\ g.kickoff # None /\ g.kickoff < before_dt}

QualifyingAway(team_id, before_dt, competition_id) ==
    {g \in games : /\ g.away_team_id = team_id
                   /\ g.status \in {"FT", "AET", "AWD", "WO"}
                   /\ g.competition_id = competition_id
                   /\ g.kickoff # None /\ g.kickoff < before_dt}

QualifyingH2H(a, b, before_dt, competition_id) ==
    {g \in games : /\ {g.home_team_id, g.away_team_id} = {a, b}
                   /\ g.home_team_id # g.away_team_id \/ a = b
                   /\ g.status \in {"FT", "AET", "AWD", "WO"}
                   /\ g.competition_id = competition_id
                   /\ g.kickoff # None /\ g.kickoff < before_dt}

\* the fixture featurized with its own goals and status blanked
Blanked(f) == [f EXCEPT !.home_goals = None, !.away_goals = None, !.status = "NS"]

\* the features of the latest row, as that call rounds them
Rounded(v) == IF last.op = "get_game_features" THEN fmt(v) ELSE num(v)

(* C1: every fixture in a window of a featurized fixture F is finished, of   *)
(* F's competition and kicks off strictly before F; the windows are chosen   *)
(* among such fixtures only, and the features are those of the windows: F's  *)
(* own goals and status, and the fixtures at or after F's kickoff, do not    *)
(* enter any feature.                                                        *)
C1_WindowsAreLeakageFree ==
    Featurized =>
        LET f == last.game
            w == last.windows
            v == FeatureValues(Blanked(f), w, <<>>)
            before == {g \in games : Contributes(g, f)}
        IN  /\ \A name \in WindowNames : \A i \in 1..Len(w[name]) : Contributes(w[name][i], f)
            /\ IsFirstN(w.hh5, {g \in before : g.home_team_id = f.home_team_id}, 5)
            /\ IsFirstN(w.hh10, {g \in before : g.home_team_id = f.home_team_id}, 10)
            /\ IsFirstN(w.aa5, {g \in before : g.away_team_id = f.away_team_id}, 5)
            /\ IsFirstN(w.aa10, {g \in before : g.away_team_id = f.away_team_id}, 10)
            /\ IsFirstN(w.h2h,
                        {g \in before : {g.home_team_id, g.away_team_id}
                                            = {f.home_team_id, f.away_team_id}}, 3)
            /\ \A k \in FeatureNames : last.row[k] = Rounded(v[k])

\* F is featurized with an earlier fixture in its home window while a finished
\* fixture of the same pairing and competition kicks off at or after F
C1_Witness ==
    /\ last.op = "get_game_features_raw"
    /\ last.queried
    /\ is_finished(last.game)
    /\ last.game.home_goals # None
    /\ Len(last.windows.hh5) >= 1
    /\ \E g \in games : /\ g # last.game
                        /\ g.status \in {"FT", "AET", "AWD", "WO"}
                        /\ g.competition_id = last.game.competition_id
                        /\ g.home_team_id = last.game.home_team_id
                        /\ g.kickoff # None
                        /\ g.kickoff >= last.game.kickoff

(* C2: a selector never returns a fixture that kicks off at or after the     *)
(* cutoff, never one without a kickoff, and never more than n fixtures.      *)
C2_SelectorsRespectCutoffAndDepth ==
    last.op \in SelectorOps =>
        /\ Len(last.result) <= last.n
        /\ \A i \in 1..Len(last.result) :
              /\ last.result[i].kickoff # None
              /\ last.result[i].kickoff < last.before_dt

\* a home selector returned n = 1 fixture while another finished home fixture of
\* the team and competition kicks off at or after the cutoff, or has no kickoff
C2_Witness ==
    /\ last.op = "last_n_home_games"
    /\ last.n = 1
    /\ Len(last.result) = 1
    /\ \E g \in games : /\ g.home_team_id = last.team_id
                        /\ g.competition_id = last.competition_id
                        /\ g.status \in {"FT", "AET", "AWD", "WO"}
                        /\ (g.kickoff = None \/ g.kickoff >= last.before_dt)

(* C3: a selector returns exactly the first n of its qualifying set, latest  *)
(* kickoff first and none skipped for an older one; the qualifying set is    *)
(* the finished fixtures (FT, AET, AWD, WO) of the competition before the    *)
(* cutoff with the team at home (away), and for head-to-head those in which  *)
(* the two teams met in either venue configuration.                          *)
C3_SelectorReturnsFirstN ==
    /\ last.op = "last_n_home_games" =>
          IsFirstN(last.result,
                   QualifyingHome(last.team_id, last.before_dt, last.competition_id), last.n)
    /\ last.op = "last_n_away_games" =>
          IsFirstN(last.result,
                   QualifyingAway(last.team_id, last.before_dt, last.competition_id), last.n)
    /\ last.op = "last_n_h2h" =>
          IsFirstN(last.result,
                   QualifyingH2H(last.team_id, last.other_id, last.before_dt,
                                 last.competition_id), last.n)

\* head-to-head with n = 1 over two meetings, the later one in the reverse
\* venue configuration: it is the one returned
C3_Witness ==
    /\ last.op = "last_n_h2h"
    /\ last.n = 1
    /\ Cardinality(QualifyingH2H(last.team_id, last.other_id, last.before_dt,
                                 last.competition_id)) = 2
    /\ Len(last.result) = 1
    /\ last.result[1].home_team_id = last.other_id
    /\ \E g \in games : g.home_team_id = last.team_id /\ g.kickoff # None
                        /\ g.kickoff < last.result[1].kickoff

\* the goal counts of a window are all recorded
GoalsRecorded(window) ==
    \A i \in 1..Len(window) : window[i].home_goals # None /\ window[i].away_goals # None

\* sum of goals over m fixtures divided by m, rounded as a feature is; None for m = 0
MeanOf(goals) ==
    IF goals = <<>> THEN None
    ELSE RoundDiv(Scale * SumSeq(goals), Len(goals))

(* C4: with m < n qualifying fixtures a window holds exactly those m, and    *)
(* attack form and defensive fragility are the sum of the goals divided by   *)
(* m, never by n: home goals 1, 2, 0 and n = 5 give attack form 1.0.         *)
C4_ShortWindowsAreNotPadded ==
    (last.op = "get_game_features_raw" /\ last.queried) =>
        LET f == last.game
            w == last.windows
            home == QualifyingHome(f.home_team_id, f.kickoff, f.competition_id)
            away == QualifyingAway(f.away_team_id, f.kickoff, f.competition_id)
            hg(window) == [i \in 1..Len(window) |-> window[i].home_goals]
            ag(window) == [i \in 1..Len(window) |-> window[i].away_goals]
        IN  /\ Cardinality(home) < 5 => SeqRange(w.hh5) = home /\ Len(w.hh5) = Cardinality(home)
            /\ Cardinality(home) < 10 => SeqRange(w.hh10) = home /\ Len(w.hh10) = Cardinality(home)
            /\ Cardinality(away) < 5 => SeqRange(w.aa5) = away /\ Len(w.aa5) = Cardinality(away)
            /\ Cardinality(away) < 10 => SeqRange(w.aa10) = away /\ Len(w.aa10) = Cardinality(away)
            /\ GoalsRecorded(w.hh5) =>
                  /\ last.row.home_attack_form_5 = MeanOf(hg(w.hh5))
                  /\ last.row.home_defensive_fragility_5 = MeanOf(ag(w.hh5))
            /\ GoalsRecorded(w.hh10) =>
                  /\ last.row.home_attack_form_10 = MeanOf(hg(w.hh10))
                  /\ last.row.home_defensive_fragility_10 = MeanOf(ag(w.hh10))
            /\ GoalsRecorded(w.aa5) =>
                  /\ last.row.away_attack_form_5 = MeanOf(ag(w.aa5))
                  /\ last.row.away_defensive_fragility_5 = MeanOf(hg(w.aa5))
            /\ GoalsRecorded(w.aa10) =>
                  /\ last.row.away_attack_form_10 = MeanOf(ag(w.aa10))
                  /\ last.row.away_defensive_fragility_10 = MeanOf(hg(w.aa10))

\* three prior home fixtures with home goals 0, 2, 1 (latest first), depth 5:
\* attack form 1.0
C4_Witness ==
    /\ last.op = "get_game_features_raw"
    /\ last.queried
    /\ Len(last.windows.hh5) = 3
    /\ [i \in 1..3 |-> last.windows.hh5[i].home_goals] = <<0, 2, 1>>
    /\ last.row.home_attack_form_5 = Scale

RawFeaturized == last.op = "get_game_features_raw" /\ last.queried

\* the goal counts of a window that are recorded, and the statistics of its
\* fixtures that are stored and parse to a number
HomeGoalsSeen(window) == DropNone([i \in 1..Len(window) |-> window[i].home_goals])
AwayGoalsSeen(window) == DropNone([i \in 1..Len(window) |-> window[i].away_goals])
TotalGoalsSeen(window) ==
    DropNone([i \in 1..Len(window) |->
        IF window[i].home_goals = None \/ window[i].away_goals = None THEN None
        ELSE window[i].home_goals + window[i].away_goals])
ShotsSeen(window, team_id) ==
    DropNone([i \in 1..Len(window) |-> team_shots_on_goal_for_game(<<>>, window[i], team_id)])
HomeStatSeen(window, keywords) ==
    DropNone([i \in 1..Len(window) |->
        team_stat_for_game_float(<<>>, window[i], window[i].home_team_id, keywords)])
AwayStatSeen(window, keywords) ==
    DropNone([i \in 1..Len(window) |->
        team_stat_for_game_float(<<>>, window[i], window[i].away_team_id, keywords)])

\* per average of the feature vector, the values observed for it in its window
GoalsObserved(w) ==
    [home_attack_form_5 |-> HomeGoalsSeen(w.hh5),
     away_attack_form_5 |-> AwayGoalsSeen(w.aa5),
     home_defensive_fragility_5 |-> AwayGoalsSeen(w.hh5),
     away_defensive_fragility_5 |-> HomeGoalsSeen(w.aa5),
     home_attack_form_10 |-> HomeGoalsSeen(w.hh10),
     away_attack_form_10 |-> AwayGoalsSeen(w.aa10),
     home_defensive_fragility_10 |-> AwayGoalsSeen(w.hh10),
     away_defensive_fragility_10 |-> HomeGoalsSeen(w.aa10),
     h2h_total_goals_avg_3 |-> TotalGoalsSeen(w.h2h)]

StatisticsObserved(f, w) ==
    [home_shots_on_goal_avg_5 |-> ShotsSeen(w.hh5, f.home_team_id),
     away_shots_on_goal_avg_5 |-> ShotsSeen(w.aa5, f.away_team_id),
     home_shots_on_goal_avg_10 |-> ShotsSeen(w.hh10, f.home_team_id),
     away_shots_on_goal_avg_10 |-> ShotsSeen(w.aa10, f.away_team_id),
     home_shots_total_avg_5 |-> HomeStatSeen(w.hh5, SHOTS_TOTAL_KEYWORDS),
     away_shots_total_avg_5 |-> AwayStatSeen(w.aa5, SHOTS_TOTAL_KEYWORDS),
     home_possession_avg_5 |-> HomeStatSeen(w.hh5, POSSESSION_KEYWORDS),
     away_possession_avg_5 |-> AwayStatSeen(w.aa5, POSSESSION_KEYWORDS),
     home_big_chances_avg_5 |-> HomeStatSeen(w.hh5, BIG_CHANCES_KEYWORDS),
     away_big_chances_avg_5 |-> AwayStatSeen(w.aa5, BIG_CHANCES_KEYWORDS),
     home_shots_allowed_on_target_avg_5 |-> AwayStatSeen(w.hh5, SHOTS_ON_TARGET_KEYWORDS),
     away_shots_allowed_on_target_avg_5 |-> HomeStatSeen(w.aa5, SHOTS_ON_TARGET_KEYWORDS)]

\* a feature is None when nothing was observed for it, and 0 only when
\* something was and all of it is 0
NoneNeverZero(value, observed) ==
    /\ observed = <<>> => value = None
    /\ value = 0 => /\ observed # <<>>
                    /\ \A i \in 1..Len(observed) : observed[i] = 0

(* C5: every average of the feature vector is None, never 0, when its window *)
(* is empty or no fixture of the window has a value for it, and is 0 only    *)
(* when all the values observed are 0.                                       *)
C5_MissingAverageIsNoneNeverZero ==
    RawFeaturized =>
        LET goals == GoalsObserved(last.windows)
            statistics == StatisticsObserved(last.game, last.windows)
        IN  /\ \A k \in DOMAIN goals : NoneNeverZero(last.row[k], goals[k])
            /\ \A k \in DOMAIN statistics : NoneNeverZero(last.row[k], statistics[k])

\* the mean of the values observed, rounded as a feature is; None when there are none
MeanSeen(observed, unit) ==
    IF observed = <<>> THEN None
    ELSE RoundDiv(unit * SumSeq(observed), Len(observed))

(* C6: a window fixture whose goal count is null, or whose statistic is      *)
(* absent or does not parse, adds no 0 to an average: every average is the   *)
(* mean of the values that are there.                                        *)
C6_MissingInputAddsNoZero ==
    RawFeaturized =>
        LET goals == GoalsObserved(last.windows)
            statistics == StatisticsObserved(last.game, last.windows)
        IN  /\ \A k \in DOMAIN goals : last.row[k] = MeanSeen(goals[k], Scale)
            /\ \A k \in DOMAIN statistics : last.row[k] = MeanSeen(statistics[k], 1)

(* C7: a featurization pass reads the statistics as they are stored when it  *)
(* runs, whatever an earlier pass of the same process read or failed to      *)
(* find: its row is the row computed with nothing memoized.                  *)
C7_LaterPassReadsStoredStatistics ==
    RawFeaturized => last.row = RawRow(last.game, last.windows, <<>>)

(* C8: after any calls of sync_fixtures, a stored fixture has both goal      *)
(* counts non-null exactly when its status is one of FT, AET, AWD, WO.       *)
C8_GoalsIffFinished ==
    \A g \in games :
        (g.home_goals # None /\ g.away_goals # None) <=> g.status \in {"FT", "AET", "AWD", "WO"}

\* the index of the last item of an answer that names the team, 0 if none does
LastItemOf(raw, team_id) ==
    IF \A i \in 1..Len(raw) : raw[i].team_id # team_id THEN 0
    ELSE CHOOSE i \in 1..Len(raw) :
            /\ raw[i].team_id = team_id
            /\ \A j \in 1..Len(raw) : raw[j].team_id = team_id => j <= i

(* C9: after any calls of sync_fixture_statistics and sync_stats_for_games   *)
(* there is at most one statistics record per (fixture, team), and a sync    *)
(* of a pair leaves that one record holding the list just received.          *)
C9_OneStatisticsRecordPerPair ==
    /\ \A i, j \in 1..Len(game_statistics) :
          (/\ game_statistics[i].game_id = game_statistics[j].game_id
           /\ game_statistics[i].team_id = game_statistics[j].team_id) => i = j
    /\ (last.op = "sync_fixture_statistics" /\ ~last.raised) =>
          \A g \in games : g.api_id = last.fixture_api_id =>
              \A t \in Teams : LastItemOf(last.raw, t) # 0 =>
                  \E i \in 1..Len(game_statistics) :
                      /\ game_statistics[i].game_id = g.pk
                      /\ game_statistics[i].team_id = t
                      /\ game_statistics[i].statistics
                            = StoredStatistics(last.raw[LastItemOf(last.raw, t)].statistics)

\* a pair that had a record is synced again, with another list
C9_Witness ==
    /\ last.op = "sync_fixture_statistics"
    /\ ~last.raised
    /\ last.updated >= 1
    /\ last.created = 0
    /\ \E i \in 1..Len(game_statistics) :
          game_statistics[i].team_id = 1 /\ game_statistics[i].statistics = ZeroShots

(* C10: the total-goals target of a row is the fixture's home goals plus its *)
(* away goals, the over-2.5 label is 1 exactly when the total is at least 3  *)
(* and 0 otherwise, and both are None for a fixture that is not finished.    *)
C10_TargetAndLabel ==
    (last.op \in FeatureOps /\ last.row # NoRow) =>
        LET f == last.game
            total == last.row.total_goals_actual
            label == last.row.is_over_2_5
        IN  IF f.status \in {"FT", "AET", "AWD", "WO"}
            THEN (f.home_goals # None /\ f.away_goals # None) =>
                    /\ total = f.home_goals + f.away_goals
                    /\ label = (IF total >= 3 THEN 1 ELSE 0)
            ELSE total = None /\ label = None

\* a finished fixture with exactly three goals: total 3, label 1
C10_Witness ==
    /\ last.op = "get_game_features_raw"
    /\ last.row # NoRow
    /\ last.game.status \in {"FT", "AET", "AWD", "WO"}
    /\ last.game.home_goals = 2
    /\ last.game.away_goals = 1
    /\ last.row.total_goals_actual = 3
    /\ last.row.is_over_2_5 = 1

-----------------------------------------------------------------------------
(* Files: a path names at most one file; files[path] is its content. *)

PathExists(fs, path) == path \in DOMAIN fs

\* open(path, "w") ... close(), model.save_model(path), joblib.dump(model, path)
WriteFile(fs, path, content) ==
    [p \in DOMAIN fs \cup {path} |-> IF p = path THEN content ELSE fs[p]]

-----------------------------------------------------------------------------
(* ml_gemini.features: build_dataset_rows *)

Reverse(seq) == [i \in 1..Len(seq) |-> seq[Len(seq) + 1 - i]]

\* str(n) of an int
PyStrInt(n) == IF n < 0 THEN <<"-">> \o PyStrNat(0 - n) ELSE PyStrNat(n)

\* the decimal digits of a fraction of Scale, zero-padded to four places
FractionDigits(frac) ==
    <<Digits[(frac \div 1000) + 1], Digits[((frac \div 100) % 10) + 1],
      Digits[((frac \div 10) % 10) + 1], Digits[(frac % 10) + 1]>>

RECURSIVE RStripZeros(_)
RStripZeros(s) ==
    IF Len(s) > 1 /\ s[Len(s)] = "0" THEN RStripZeros(SubSeq(s, 1, Len(s) - 1)) ELSE s

\* repr(x) of a float rounded to four places: the shortest decimal text that
\* reads back as x, with at least one digit after the point
PyReprFloat(x) ==
    LET a == IF x < 0 THEN 0 - x ELSE x
    IN  (IF x < 0 THEN <<"-">> ELSE <<>>)
        \o PyStrNat(a \div Scale) \o <<".">> \o RStripZeros(FractionDigits(a % Scale))

POISSON_TARGET_COLUMN == "total_goals_actual"

\* list(dict.fromkeys(seq)): the first occurrence of every name, in order
RECURSIVE FromKeys(_)
FromKeys(seq) ==
    IF seq = <<>> THEN <<>>
    ELSE <<Head(seq)>> \o FromKeys(SelectSeq(Tail(seq), LAMBDA key : key # Head(seq)))

all_feature_columns == FromKeys(POISSON_FEATURE_COLUMNS \o XG_FEATURE_COLUMNS)

fieldnames == all_feature_columns \o <<POISSON_TARGET_COLUMN, "is_over_2_5">>

\* the queryset of build_dataset_rows
DatasetGamesFilter(competition_id) ==
    {g \in games : /\ g.competition_id = competition_id
                   /\ g.status \in FINISHED_STATUSES
                   /\ g.kickoff # None}

\* a faulty limit: the `limit` oldest fixtures
DatasetGamesOldest(competition_id, limit) ==
    IF limit # None /\ limit # 0
    THEN {Slice(Reverse(order), limit) :
             order \in OrderByKickoffDesc(DatasetGamesFilter(competition_id))}
    ELSE {Reverse(order) : order \in OrderByKickoffDesc(DatasetGamesFilter(competition_id))}

\* `games` of build_dataset_rows for a limit that is None or not negative: every
\* list the two order_by calls may give
DatasetGames(competition_id, limit) ==
    IF limit # None /\ limit # 0
    THEN {Reverse(Slice(order, limit)) :
             order \in OrderByKickoffDesc(DatasetGamesFilter(competition_id))}
    ELSE {Reverse(order) : order \in OrderByKickoffDesc(DatasetGamesFilter(competition_id))}

\* the empty string in a yielded row
Blank == 0 - 3

\* a faulty cell: `row_raw.get(k) or ""`
DatasetValueOr(v) == IF v = None \/ v = 0 THEN Blank ELSE v

\* row_raw.get(k) if row_raw.get(k) is not None else ""
DatasetValue(v) == IF v # None THEN v ELSE Blank

\* the row build_dataset_rows yields for row_raw
DatasetRow(row_raw) ==
    [k \in SeqRange(fieldnames) |->
        IF k = "is_over_2_5" THEN row_raw[k] ELSE DatasetValue(row_raw[k])] @@ <<>>

\* csv.DictWriter: a field is str(value), '' for None
CsvField(k, v) ==
    IF v = Blank \/ v = None THEN <<>>
    ELSE IF v = NaN THEN <<"n", "a", "n">>
    ELSE IF k \in {POISSON_TARGET_COLUMN, "is_over_2_5"} THEN PyStrInt(v)
    ELSE PyReprFloat(v)

CsvRecord(row) == [k \in SeqRange(fieldnames) |-> CsvField(k, row[k])] @@ <<>>

\* the file after writeheader() and one writerow(row) per row
CsvFile(rows) ==
    [columns |-> fieldnames, rows |-> [i \in 1..Len(rows) |-> CsvRecord(rows[i])]]

\* One turn of the loop of build_dataset_rows for a game that yields a row, its
\* five windows being w: acc = [sources, raw, rows, cache] after the turn.
BuildDatasetStep(game, w, acc) ==
    CHOOSE next \in {[sources |-> Append(acc.sources, game),
                      raw |-> Append(acc.raw, row_raw),
                      rows |-> Append(acc.rows, DatasetRow(row_raw)),
                      cache |-> CacheAfter(acc.cache, StatKeys(game, w))] :
                     row_raw \in {RawRow(game, w, acc.cache) @@ <<>>}} : TRUE

\* The loop of build_dataset_rows over `order`, from acc: every outcome, one per
\* choice the window queries may make.
RECURSIVE BuildDatasetOver(_, _)
BuildDatasetOver(order, acc) ==
    IF order = <<>> THEN {acc}
    ELSE IF RawRefuses(Head(order), FALSE, TRUE)
    THEN BuildDatasetOver(Tail(order), acc)
    ELSE UNION {BuildDatasetOver(Tail(order), next) :
                next \in {BuildDatasetStep(Head(order), w, acc) :
                             w \in WindowChoices(Head(order))}}

\* an output_path that `if output_path:` finds false (None)
NoPath == ""

\* list(build_dataset_rows(competition_id, output_path, limit)); a negative limit
\* is refused by the queryset slice before the file is opened
BuildDatasetRows(competition_id, output_path, limit) ==
    /\ IF limit # None /\ limit < 0
       THEN /\ last' = [op |-> "build_dataset_rows", competition_id |-> competition_id,
                        output_path |-> output_path, limit |-> limit, raised |-> TRUE,
                        sources |-> <<>>, raw |-> <<>>, rows |-> <<>>]
            /\ UNCHANGED <<payload_cache, files>>
       ELSE \E order \in DatasetGames(competition_id, limit) :
               \E done \in BuildDatasetOver(order, [sources |-> <<>>, raw |-> <<>>,
                                                    rows |-> <<>>, cache |-> payload_cache]) :
                   /\ payload_cache' = done.cache
                   /\ files' = IF output_path = NoPath THEN files
                               ELSE WriteFile(files, output_path, CsvFile(done.rows))
                   /\ last' = [op |-> "build_dataset_rows",
                               competition_id |-> competition_id,
                               output_path |-> output_path, limit |-> limit,
                               raised |-> FALSE, sources |-> done.sources,
                               raw |-> done.raw, rows |-> done.rows]
    /\ UNCHANGED <<games, game_statistics, request_count>>

(* SpecBuild: datasets built from stores of one pairing: two fixtures of any *)
(* competition, kickoff and status of the window stores, or up to            *)
(* MaxDataset fixtures of the average stores.                                *)

MaxDataset == 3

DatasetLimits == {None, 0 - 1, 0, 1, 2}

InitBuild ==
    /\ \/ /\ games \in {s \in WindowStores :
                          /\ Cardinality(s) = 2
                          /\ \A g \in s : g.home_team_id = 1 /\ g.away_team_id = 2}
          /\ game_statistics = <<>>
       \/ \E store \in AverageStores :
             /\ Cardinality(store[1]) <= MaxDataset
             /\ games = store[1]
             /\ game_statistics = store[2]
    /\ payload_cache = <<>>
    /\ request_count = 0
    /\ files = NoFiles
    /\ last = NoCall

NextBuild ==
    \E competition_id \in {1, 2} :
        \/ \E limit \in DatasetLimits :
              BuildDatasetRows(competition_id, "gemini_dataset.csv", limit)
        \/ BuildDatasetRows(competition_id, NoPath, None)

SpecBuild == InitBuild /\ [][NextBuild]_vars

-----------------------------------------------------------------------------
(* ml_gemini.poisson_model and ml_gemini.xg_classifier: loading a dataset *)

\* what pandas makes of a parsed field: the number, in units of 1/Scale, None
\* for NaN, and float's inf as it is (no field modelled below reads as one)
NumberOrNaN(f) ==
    IF f.kind = "num" THEN f.val
    ELSE IF f.kind = "inf" THEN f
    ELSE None

\* pd.read_csv and pd.to_numeric(errors="coerce") of one field: NaN for an empty
\* field, a text that is no number and the text "nan"
ToNumeric(text) == IF text = <<>> THEN None ELSE NumberOrNaN(PyFloat(text))

\* pd.read_csv(path): the rows under their index labels 0, 1, ...
ReadCsv(file) ==
    [i \in 1..Len(file.rows) |-> [index |-> i - 1, cells |-> file.rows[i]]]

\* the columns of `required`, in order, that the file does not have
MissingColumns(file, required) ==
    SelectSeq(required, LAMBDA col : col \notin SeqRange(file.columns))

\* df.dropna(subset=columns), once the columns are numeric
DropNa(df, columns) ==
    SelectSeq(df, LAMBDA row : \A col \in columns : ToNumeric(row.cells[col]) # None)

\* fillna(0.0) of one value
FillNa(v) == IF v = None THEN 0 ELSE v

\* df[features].fillna(0.0).astype(float) of one row, column by column
FeatureInput(row, features) ==
    [j \in 1..Len(features) |-> FillNa(ToNumeric(row.cells[features[j]]))]

\* clip(lower=0).astype(int) of a target
ClipInt(v) == Truncate(Max(v, 0))

\* the exception a loader raises, with nothing loaded
LoadRaises(error) == [raised |-> error, index |-> <<>>, X |-> <<>>, y |-> <<>>]

\* (X, y) of poisson_model.load_dataset from the rows kept, with their index labels
PoissonLoaded(df) ==
    [raised |-> "none",
     index |-> [i \in 1..Len(df) |-> df[i].index],
     X |-> [i \in 1..Len(df) |-> FeatureInput(df[i], POISSON_FEATURE_COLUMNS)],
     y |-> [i \in 1..Len(df) |-> ClipInt(ToNumeric(df[i].cells[POISSON_TARGET_COLUMN]))]]

\* poisson_model.load_dataset(csv_path)
load_dataset(fs, csv_path) ==
    IF ~PathExists(fs, csv_path) THEN LoadRaises("FileNotFoundError")
    ELSE IF MissingColumns(fs[csv_path],
                           POISSON_FEATURE_COLUMNS \o <<POISSON_TARGET_COLUMN>>) # <<>>
    THEN LoadRaises("ValueError")
    ELSE PoissonLoaded(DropNa(ReadCsv(fs[csv_path]), {POISSON_TARGET_COLUMN}))

\* train_ratio is a float; the model writes it in hundredths
RatioScale == 100

\* int(n * train_ratio): the product truncated toward zero
SplitIndex(n, train_ratio) ==
    IF n * train_ratio >= 0 THEN (n * train_ratio) \div RatioScale
    ELSE 0 - ((0 - n * train_ratio) \div RatioScale)

\* the bound of seq[:i] and seq[i:] of Python, i of either sign
SliceBound(seq, i) == IF i < 0 THEN Max(0, Len(seq) + i) ELSE Min(i, Len(seq))

ILocHead(seq, i) == SubSeq(seq, 1, SliceBound(seq, i))

ILocTail(seq, i) == SubSeq(seq, SliceBound(seq, i) + 1, Len(seq))

\* the exception a splitting loader raises, with nothing loaded
SplitRaises(error) ==
    [raised |-> error, train_index |-> <<>>, X_train |-> <<>>, y_train |-> <<>>,
     test_index |-> <<>>, X_test |-> <<>>, y_test |-> <<>>]

\* iloc[:split_idx] and iloc[split_idx:] of what was loaded
SplitAt(loaded, split_idx) ==
    [raised |-> "none",
     train_index |-> ILocHead(loaded.index, split_idx),
     X_train |-> ILocHead(loaded.X, split_idx),
     y_train |-> ILocHead(loaded.y, split_idx),
     test_index |-> ILocTail(loaded.index, split_idx),
     X_test |-> ILocTail(loaded.X, split_idx),
     y_test |-> ILocTail(loaded.y, split_idx)]

\* the split of load_dataset_for_validation: refused if split_idx == 0 or >= n
ValidationSplit(loaded, split_idx) ==
    IF split_idx = 0 \/ split_idx >= Len(loaded.y) THEN SplitRaises("ValueError")
    ELSE SplitAt(loaded, split_idx)

\* the rows load_dataset_for_validation keeps, split at int(n * train_ratio)
ValidationLoaded(df, train_ratio) ==
    ValidationSplit(PoissonLoaded(df), SplitIndex(Len(df), train_ratio))

\* poisson_model.load_dataset_for_validation(csv_path, train_ratio); y_test_over25
\* goes with X_test row for row and is left out
load_dataset_for_validation(fs, csv_path, train_ratio) ==
    IF ~PathExists(fs, csv_path) THEN SplitRaises("FileNotFoundError")
    ELSE IF MissingColumns(fs[csv_path],
                           POISSON_FEATURE_COLUMNS
                           \o <<POISSON_TARGET_COLUMN, "is_over_2_5">>) # <<>>
    THEN SplitRaises("ValueError")
    ELSE ValidationLoaded(DropNa(ReadCsv(fs[csv_path]),
                                 {POISSON_TARGET_COLUMN, "is_over_2_5"}),
                          train_ratio)

XG_INPUT_COLUMNS == FromKeys(XG_FEATURE_COLUMNS \o POISSON_FEATURE_COLUMNS)

TARGET_COLUMN == "is_over_2_5"

\* (X, y) of xg_classifier.load_dataset from the rows kept, with their index labels
XgLoaded(df) ==
    [raised |-> "none",
     index |-> [i \in 1..Len(df) |-> df[i].index],
     X |-> [i \in 1..Len(df) |-> FeatureInput(df[i], XG_INPUT_COLUMNS)],
     y |-> [i \in 1..Len(df) |-> Truncate(ToNumeric(df[i].cells[TARGET_COLUMN]))]]

\* xg_classifier.load_dataset(csv_path, feature_columns=None)
xg_load_dataset(fs, csv_path) ==
    IF ~PathExists(fs, csv_path) THEN LoadRaises("FileNotFoundError")
    ELSE IF MissingColumns(fs[csv_path], XG_INPUT_COLUMNS \o <<TARGET_COLUMN>>) # <<>>
    THEN LoadRaises("ValueError")
    ELSE XgLoaded(DropNa(ReadCsv(fs[csv_path]), {TARGET_COLUMN}))

\* the split of load_dataset_split: refused if split_idx <= 0 or >= n
ClassifierSplit(loaded, split_idx) ==
    IF loaded.raised # "none" THEN SplitRaises(loaded.raised)
    ELSE IF split_idx <= 0 \/ split_idx >= Len(loaded.X) THEN SplitRaises("ValueError")
    ELSE SplitAt(loaded, split_idx)

\* what load_dataset_split makes of what load_dataset returned
SplitLoaded(loaded, train_ratio) ==
    ClassifierSplit(loaded, SplitIndex(Len(loaded.X), train_ratio))

\* xg_classifier.load_dataset_split(csv_path, train_ratio)
load_dataset_split(fs, csv_path, train_ratio) ==
    SplitLoaded(xg_load_dataset(fs, csv_path), train_ratio)

-----------------------------------------------------------------------------
(* Training: of a fitted model only its class is kept. *)

\* XGBRegressor(...).fit(X, y)
train_poisson_model(X, y) == [kind |-> "XGBRegressor"]

\* LogisticRegression(...).fit(X, y); fit raises ValueError unless y holds two classes
train_classifier(X, y) ==
    IF Cardinality(SeqRange(y)) < 2 THEN [kind |-> "ValueError"]
    ELSE [kind |-> "LogisticRegression"]

\* what a training command reports of itself
Report(op, dataset, output, train_ratio, loaded, message, trained, saved) ==
    [op |-> op, dataset |-> dataset, output |-> output, train_ratio |-> train_ratio,
     loaded |-> loaded, message |-> message, trained |-> trained, saved |-> saved]

\* a faulty check: an empty dataset is not noticed
NoRowsNever(y) == FALSE

\* n == 0 of train_gemini_poisson, len(y) == 0 of train_all_gemini_competitions
NoRows(y) == Len(y) = 0

\* manage.py train_gemini_poisson -d dataset -o output
TrainGeminiPoisson(dataset, output) ==
    /\ \E loaded \in {load_dataset(files, dataset)} :
          IF loaded.raised # "none"
          THEN /\ last' = Report("train_gemini_poisson", dataset, output, None, loaded,
                                 "ERROR", FALSE, FALSE)
               /\ UNCHANGED files
          ELSE IF NoRows(loaded.y)
          THEN /\ last' = Report("train_gemini_poisson", dataset, output, None, loaded,
                                 "WARNING", FALSE, FALSE)
               /\ UNCHANGED files
          ELSE /\ files' = WriteFile(files, output, train_poisson_model(loaded.X, loaded.y))
               /\ last' = Report("train_gemini_poisson", dataset, output, None, loaded,
                                 "SUCCESS", TRUE, TRUE)
    /\ UNCHANGED <<games, game_statistics, payload_cache, request_count>>

\* manage.py validate_gemini_poisson -d dataset [-o output] --train-ratio train_ratio;
\* whether xgboost fits or refuses an empty training set is left open
ValidateGeminiPoisson(dataset, output, train_ratio) ==
    /\ \E loaded \in {load_dataset_for_validation(files, dataset, train_ratio)} :
          IF loaded.raised # "none"
          THEN /\ last' = Report("validate_gemini_poisson", dataset, output, train_ratio,
                                 loaded, "ERROR", FALSE, FALSE)
               /\ UNCHANGED files
          ELSE \/ /\ Len(loaded.y_train) = 0
                  /\ last' = Report("validate_gemini_poisson", dataset, output, train_ratio,
                                    loaded, "XGBoostError", TRUE, FALSE)
                  /\ UNCHANGED files
               \/ /\ files' = IF output = NoPath THEN files
                              ELSE WriteFile(files, output,
                                             train_poisson_model(loaded.X_train,
                                                                 loaded.y_train))
                  /\ last' = Report("validate_gemini_poisson", dataset, output, train_ratio,
                                    loaded, "SUCCESS", TRUE, output # NoPath)
    /\ UNCHANGED <<games, game_statistics, payload_cache, request_count>>

\* max(0.6, min(0.95, options["train_ratio"]))
ClampedRatio(train_ratio) == Max(60, Min(95, train_ratio))

\* manage.py train_gemini_xg_classifier -d dataset -o output --train-ratio train_ratio
TrainGeminiXgClassifier(dataset, output, train_ratio) ==
    /\ \E loaded \in {load_dataset_split(files, dataset, ClampedRatio(train_ratio))} :
          IF loaded.raised # "none"
          THEN /\ last' = Report("train_gemini_xg_classifier", dataset, output,
                                 ClampedRatio(train_ratio), loaded, "ERROR", FALSE, FALSE)
               /\ UNCHANGED files
          ELSE IF Len(loaded.X_train) = 0
          THEN /\ last' = Report("train_gemini_xg_classifier", dataset, output,
                                 ClampedRatio(train_ratio), loaded, "WARNING", FALSE, FALSE)
               /\ UNCHANGED files
          ELSE IF train_classifier(loaded.X_train, loaded.y_train).kind = "ValueError"
          THEN /\ last' = Report("train_gemini_xg_classifier", dataset, output,
                                 ClampedRatio(train_ratio), loaded, "ValueError", TRUE, FALSE)
               /\ UNCHANGED files
          ELSE /\ files' = WriteFile(files, output,
                                     train_classifier(loaded.X_train, loaded.y_train))
               /\ last' = Report("train_gemini_xg_classifier", dataset, output,
                                 ClampedRatio(train_ratio), loaded, "SUCCESS", TRUE, TRUE)
    /\ UNCHANGED <<games, game_statistics, payload_cache, request_count>>

(* ml_gemini.features: model filenames.  A competition object is [pk, api_id, *)
(* slug], slug being what get_league_slug_for_competition finds for it in     *)
(* LEAGUE_REGISTRY (NoSlug: nothing); NoCompetition is None passed for it.    *)
(* A stored Competition always has an api_id (models.py 26); None for it is   *)
(* that of an object that is no stored row.  No filename is NoPath.           *)

NoSlug == ""

NoCompetition == [pk |-> None, api_id |-> None, slug |-> NoSlug]

LEAGUE_REGISTRY == {"premier", "laliga", "ligue1"}

get_league_slug_for_competition(competition) ==
    IF competition = NoCompetition THEN NoSlug ELSE competition.slug

\* slug is None, or a key of LEAGUE_REGISTRY, which strip().lower() leaves as it is
get_model_filename_for_league(slug) ==
    IF slug = "premier" THEN "gemini_poisson.json"
    ELSE IF slug \in LEAGUE_REGISTRY THEN "gemini_poisson_" \o slug \o ".json"
    ELSE "gemini_poisson.json"

\* the slug route taken even when the competition has an api_id
PoissonFilenameBySlugFirst(competition) ==
    IF competition = NoCompetition THEN NoPath
    ELSE IF get_league_slug_for_competition(competition) # NoSlug
    THEN get_model_filename_for_league(get_league_slug_for_competition(competition))
    ELSE IF competition.api_id # None
    THEN "gemini_poisson_" \o ToString(competition.api_id) \o ".json"
    ELSE NoPath

get_model_filename_for_competition(competition) ==
    IF competition = NoCompetition THEN NoPath
    ELSE IF competition.api_id # None
    THEN "gemini_poisson_" \o ToString(competition.api_id) \o ".json"
    ELSE IF get_league_slug_for_competition(competition) # NoSlug
    THEN get_model_filename_for_league(get_league_slug_for_competition(competition))
    ELSE NoPath

get_xg_model_filename_for_league(slug) ==
    IF slug = NoSlug THEN NoPath ELSE "gemini_xg_" \o slug \o ".pkl"

get_xg_model_filename_for_competition(competition) ==
    IF competition = NoCompetition THEN NoPath
    ELSE IF competition.api_id # None
    THEN "gemini_xg_" \o ToString(competition.api_id) \o ".pkl"
    ELSE IF get_league_slug_for_competition(competition) # NoSlug
    THEN get_xg_model_filename_for_league(get_league_slug_for_competition(competition))
    ELSE NoPath

\* the stored Competition row of an api_id (its pk taken to be its api_id): the
\* first is the Premier League of England, the others are in no registry entry
CompetitionRow(api_id) ==
    [pk |-> api_id, api_id |-> api_id, slug |-> IF api_id = 1 THEN "premier" ELSE NoSlug]

\* gemini_dataset_{api_id}.csv of train_all_gemini_competitions
CompetitionDatasetPath(api_id) == "gemini_dataset_" \o ToString(api_id) \o ".csv"

\* the filename train_all_gemini_competitions saves the model of a competition to
CompetitionModelPath(api_id) == get_model_filename_for_competition(CompetitionRow(api_id))

\* comp_ids of train_all_gemini_competitions, the competitions in the order of
\* their names (taken to be that of their ids)
CompetitionsWithGames(min_games) ==
    SelectSeq(<<1, 2>>,
              LAMBDA c : /\ c \in Competitions
                         /\ Cardinality(DatasetGamesFilter(c)) >= Max(min_games, 1))

\* whether a turn of train_all_gemini_competitions reaches train_poisson_model
TrainAllTrains(rows, loaded) ==
    rows # <<>> /\ loaded.raised = "none" /\ ~NoRows(loaded.y)

\* a turn of train_all_gemini_competitions from load_dataset on
TrainAllLoaded(comp, built, acc, written, loaded) ==
    [fs |-> IF TrainAllTrains(built.rows, loaded)
            THEN WriteFile(written, CompetitionModelPath(comp),
                           train_poisson_model(loaded.X, loaded.y))
            ELSE written,
     cache |-> built.cache,
     reports |-> Append(acc.reports,
                        Report("train_all_gemini_competitions",
                               CompetitionDatasetPath(comp), CompetitionModelPath(comp),
                               None,
                               IF built.rows = <<>> THEN LoadRaises("none") ELSE loaded,
                               IF built.rows = <<>> THEN "WARNING"
                               ELSE IF loaded.raised # "none" THEN "ERROR"
                               ELSE IF NoRows(loaded.y) THEN "WARNING"
                               ELSE "SUCCESS",
                               TrainAllTrains(built.rows, loaded),
                               TrainAllTrains(built.rows, loaded)))]

\* One turn of the loop of train_all_gemini_competitions, its dataset built as
\* built = [sources, raw, rows, cache]: acc = [fs, cache, reports] after the turn.
TrainAllStep(comp, built, acc) ==
    CHOOSE next \in
        {TrainAllLoaded(comp, built, acc, written,
                        load_dataset(written, CompetitionDatasetPath(comp))) :
            written \in {WriteFile(acc.fs, CompetitionDatasetPath(comp),
                                   CsvFile(built.rows))}} : TRUE

\* The loop of train_all_gemini_competitions over `competitions`: every outcome.
RECURSIVE TrainAllOver(_, _)
TrainAllOver(competitions, acc) ==
    IF competitions = <<>> THEN {acc}
    ELSE UNION {TrainAllOver(Tail(competitions), next) :
                next \in {TrainAllStep(Head(competitions), built, acc) :
                            built \in UNION {BuildDatasetOver(order,
                                                 [sources |-> <<>>, raw |-> <<>>,
                                                  rows |-> <<>>, cache |-> acc.cache]) :
                                             order \in DatasetGames(Head(competitions),
                                                                    None)}}}

\* manage.py train_all_gemini_competitions --min-games min_games
TrainAllGeminiCompetitions(min_games) ==
    /\ \E done \in TrainAllOver(CompetitionsWithGames(min_games),
                                [fs |-> files, cache |-> payload_cache, reports |-> <<>>]) :
          /\ files' = done.fs
          /\ payload_cache' = done.cache
          /\ last' = [op |-> "train_all_gemini_competitions", min_games |-> min_games,
                      reports |-> done.reports]
    /\ UNCHANGED <<games, game_statistics, request_count>>

(* The loaders called on their own *)

LoadDataset(csv_path) ==
    /\ last' = [op |-> "load_dataset", dataset |-> csv_path,
                loaded |-> load_dataset(files, csv_path)]
    /\ UNCHANGED <<games, game_statistics, payload_cache, request_count, files>>

LoadDatasetForValidation(csv_path, train_ratio) ==
    /\ last' = [op |-> "load_dataset_for_validation", dataset |-> csv_path,
                train_ratio |-> train_ratio,
                loaded |-> load_dataset_for_validation(files, csv_path, train_ratio)]
    /\ UNCHANGED <<games, game_statistics, payload_cache, request_count, files>>

XgLoadDataset(csv_path) ==
    /\ last' = [op |-> "xg_load_dataset", dataset |-> csv_path,
                loaded |-> xg_load_dataset(files, csv_path)]
    /\ UNCHANGED <<games, game_statistics, payload_cache, request_count, files>>

LoadDatasetSplit(csv_path, train_ratio) ==
    /\ last' = [op |-> "load_dataset_split", dataset |-> csv_path,
                train_ratio |-> train_ratio,
                loaded |-> load_dataset_split(files, csv_path, train_ratio)]
    /\ UNCHANGED <<games, game_statistics, payload_cache, request_count, files>>

-----------------------------------------------------------------------------
(* SpecData: the loaders and the training commands on a dataset file that is *)
(* absent, has up to MaxRows rows of the kinds below under the full header,  *)
(* or lacks one column; and train_all_gemini_competitions on small stores.   *)

MaxRows == 3

\* the fields of a row: core features, extended features, target, label
RowKinds ==
    <<[core |-> <<"1", ".", "5">>, extended |-> <<"0", ".", "2", "5">>,
       target |-> <<"3">>, label |-> <<"1">>],
      [core |-> <<>>, extended |-> <<>>, target |-> <<"0">>, label |-> <<"0">>],
      [core |-> <<"0", ".", "0">>, extended |-> <<>>, target |-> <<>>, label |-> <<>>],
      [core |-> <<"2", ".", "0">>, extended |-> <<"x">>, target |-> <<"2">>, label |-> <<>>]>>

HandRow(kind) ==
    [k \in SeqRange(fieldnames) |->
        IF k = POISSON_TARGET_COLUMN THEN RowKinds[kind].target
        ELSE IF k = "is_over_2_5" THEN RowKinds[kind].label
        ELSE IF k \in SeqRange(POISSON_FEATURE_COLUMNS) THEN RowKinds[kind].core
        ELSE RowKinds[kind].extended] @@ <<>>

FullDatasets ==
    UNION {{[columns |-> fieldnames, rows |-> [i \in 1..n |-> HandRow(f[i])]] :
              f \in [1..n -> 1..Len(RowKinds)]} :
           n \in 0..MaxRows}

\* the file without one column
DropColumn(file, column) ==
    [columns |-> SelectSeq(file.columns, LAMBDA c : c # column),
     rows |-> [i \in 1..Len(file.rows) |->
                  [k \in DOMAIN file.rows[i] \ {column} |-> file.rows[i][k]]]]

\* one column of each part of the schema
SchemaProbes ==
    {"home_attack_form_5", "home_possession_avg_5", POISSON_TARGET_COLUMN, "is_over_2_5"}

ShortDatasets ==
    {DropColumn(file, column) :
        file \in {d \in FullDatasets : Len(d.rows) = 2 /\ d.rows[1] # d.rows[2]
                                       /\ d.rows[1] = HandRow(1)},
        column \in SchemaProbes}

TrainRatios == {0 - 100, 0 - 50, 0, 50, 80, 100, 150}

InitData ==
    /\ \/ /\ games = {}
          /\ game_statistics = <<>>
          /\ \/ files = NoFiles
             \/ \E file \in FullDatasets \cup ShortDatasets :
                   files = WriteFile(NoFiles, "gemini_dataset.csv", file)
       \/ /\ \E store \in AverageStores :
                /\ Cardinality(store[1]) \in 1..2
                /\ games = store[1]
                /\ game_statistics = store[2]
          /\ files = NoFiles
    /\ payload_cache = <<>>
    /\ request_count = 0
    /\ last = NoCall

NextData ==
    \/ LoadDataset("gemini_dataset.csv")
    \/ XgLoadDataset("gemini_dataset.csv")
    \/ \E train_ratio \in TrainRatios :
          \/ LoadDatasetForValidation("gemini_dataset.csv", train_ratio)
          \/ LoadDatasetSplit("gemini_dataset.csv", train_ratio)
          \/ ValidateGeminiPoisson("gemini_dataset.csv", "gemini_poisson.json", train_ratio)
    \/ ValidateGeminiPoisson("gemini_dataset.csv", NoPath, 80)
    \/ \E train_ratio \in {50, 80, 100} :
          TrainGeminiXgClassifier("gemini_dataset.csv", "gemini_xg.pkl", train_ratio)
    \/ TrainGeminiPoisson("gemini_dataset.csv", "gemini_poisson.json")
    \/ \E min_games \in {1, 2} : TrainAllGeminiCompetitions(min_games)

SpecData == InitData /\ [][NextData]_vars

-----------------------------------------------------------------------------
(* ml_gemini.poisson_model and ml_gemini.xg_classifier: inference *)

\* the expected goals a count:poisson model may return, in units of 1/Scale
Lambdas == {Scale \div 2, 3 * Scale}

\* the values predict_proba may return for the class "over", in units of 1/Scale
Probabilities == {Scale \div 4, (3 * Scale) \div 4}

\* row_raw.get(col, 0.0) or 0.0
InferenceValue(v) == IF v = None \/ v = 0 THEN 0 ELSE v

\* the one-row frame X the model is given at inference
InferenceInput(row_raw, features) ==
    [i \in 1..Len(features) |-> InferenceValue(row_raw[features[i]])]

\* the frame holds a nan, which predict_proba of LogisticRegression refuses with
\* a ValueError and XGBoost reads as a missing value
HasNaN(X) == \E i \in 1..Len(X) : X[i] = NaN

\* a faulty check: the model file is taken to be there
PathAlwaysExists(fs, path) == TRUE

\* Path(model_path).exists() of the inference functions
ModelExists(fs, path) == PathExists(fs, path)

\* poisson_model.load_model(path): xgboost refuses a path that is no file
xgb_load_model(fs, path) ==
    IF path \in DOMAIN fs THEN [raised |-> "none", model |-> fs[path]]
    ELSE [raised |-> "XGBoostError", model |-> None]

\* xg_classifier.load_model(path)
joblib_load_model(fs, path) ==
    IF ~PathExists(fs, path) THEN [raised |-> "FileNotFoundError", model |-> None]
    ELSE [raised |-> "none", model |-> fs[path]]

\* what a single-fixture inference call leaves to its caller
Inference(op, game, model_path, queried, raised, w, row_raw, X, result) ==
    [op |-> op, game |-> game, model_path |-> model_path, queried |-> queried,
     raised |-> raised, windows |-> w, row |-> row_raw, X |-> X, result |-> result]

\* predict_lambda_for_game(game, model_path)
PredictLambdaForGame(game, model_path) ==
    /\ IF ~ModelExists(files, model_path) \/ RawRefuses(game, TRUE, TRUE)
       THEN /\ last' = Inference("predict_lambda_for_game", game, model_path, FALSE,
                                 "none", NoWindows, NoRow, <<>>, None)
            /\ UNCHANGED payload_cache
       ELSE \E w \in WindowChoices(game) :
               \E row_raw \in {RawRow(game, w, payload_cache) @@ <<>>} :
                   /\ payload_cache' = CacheAfter(payload_cache, StatKeys(game, w))
                   /\ \E loaded \in {xgb_load_model(files, model_path)} :
                         IF loaded.raised # "none"
                         THEN last' = Inference("predict_lambda_for_game", game,
                                                model_path, TRUE, loaded.raised, w, row_raw,
                                                InferenceInput(row_raw, POISSON_FEATURE_COLUMNS),
                                                None)
                         ELSE \E pred \in Lambdas :
                                 last' = Inference("predict_lambda_for_game", game,
                                                   model_path, TRUE, "none", w, row_raw,
                                                   InferenceInput(row_raw, POISSON_FEATURE_COLUMNS),
                                                   pred)
    /\ UNCHANGED <<games, game_statistics, request_count, files>>

\* predict_probability_for_game(game, model_path, feature_columns=None)
PredictProbabilityForGame(game, model_path) ==
    /\ IF RawRefuses(game, TRUE, TRUE)
       THEN /\ last' = Inference("predict_probability_for_game", game, model_path, FALSE,
                                 "none", NoWindows, NoRow, <<>>, None)
            /\ UNCHANGED payload_cache
       ELSE \E w \in WindowChoices(game) :
               \E row_raw \in {RawRow(game, w, payload_cache) @@ <<>>} :
                   /\ payload_cache' = CacheAfter(payload_cache, StatKeys(game, w))
                   /\ \E loaded \in {joblib_load_model(files, model_path)} :
                         IF loaded.raised # "none"
                         THEN last' = Inference("predict_probability_for_game", game,
                                                model_path, TRUE, loaded.raised, w, row_raw,
                                                InferenceInput(row_raw, XG_INPUT_COLUMNS),
                                                None)
                         ELSE IF HasNaN(InferenceInput(row_raw, XG_INPUT_COLUMNS))
                         THEN last' = Inference("predict_probability_for_game", game,
                                                model_path, TRUE, "ValueError", w, row_raw,
                                                InferenceInput(row_raw, XG_INPUT_COLUMNS),
                                                None)
                         ELSE \E prob \in Probabilities :
                                 last' = Inference("predict_probability_for_game", game,
                                                   model_path, TRUE, "none", w, row_raw,
                                                   InferenceInput(row_raw, XG_INPUT_COLUMNS),
                                                   prob)
    /\ UNCHANGED <<games, game_statistics, request_count, files>>

\* a faulty turn: the pair is put before the pairs of the earlier games
PredictAnswerInFront(game, pred, X, acc, cache, strict) ==
    [rows |-> <<<<game.pk, pred>>>> \o acc.rows, X |-> <<X>> \o acc.X, cache |-> cache,
     queried |-> TRUE, raised |-> "none"]

\* One turn of the loop of a batch function for a game whose features are
\* computed, its windows being w and the model answering pred; a strict model
\* raises on a frame with a nan in it.
PredictAnswer(game, pred, X, acc, cache, strict) ==
    IF strict /\ HasNaN(X)
    THEN [rows |-> acc.rows, X |-> Append(acc.X, X), cache |-> cache,
          queried |-> TRUE, raised |-> "ValueError"]
    ELSE [rows |-> Append(acc.rows, <<game.pk, pred>>), X |-> Append(acc.X, X),
          cache |-> cache, queried |-> TRUE, raised |-> "none"]

PredictStep(game, w, pred, acc, features, strict) ==
    CHOOSE next \in {PredictAnswer(game, pred, InferenceInput(row_raw, features), acc,
                                   CacheAfter(acc.cache, StatKeys(game, w)), strict) :
                     row_raw \in {RawRow(game, w, acc.cache) @@ <<>>}} : TRUE

\* The loop of a batch function over `order`, from acc: every outcome.
RECURSIVE PredictOver(_, _, _, _, _)
PredictOver(order, acc, features, preds, strict) ==
    IF order = <<>> \/ acc.raised # "none" THEN {acc}
    ELSE IF RawRefuses(Head(order), TRUE, TRUE)
    THEN PredictOver(Tail(order), acc, features, preds, strict)
    ELSE UNION {PredictOver(Tail(order), next, features, preds, strict) :
                next \in {PredictStep(Head(order), c[1], c[2], acc, features, strict) :
                             c \in WindowChoices(Head(order)) \X preds}}

\* what a batch inference call leaves to its caller: the list, empty if it raised
BatchInference(op, order, model_path, raised, done) ==
    [op |-> op, order |-> [i \in 1..Len(order) |-> order[i].pk],
     model_path |-> model_path, queried |-> done.queried, raised |-> raised,
     X |-> done.X, result |-> IF raised = "none" THEN done.rows ELSE <<>>]

\* the batch before its first game
NoneDone(cache) ==
    [rows |-> <<>>, X |-> <<>>, cache |-> cache, queried |-> FALSE, raised |-> "none"]

\* predict_lambdas_for_games(games, model_path)
PredictLambdasForGames(order, model_path) ==
    /\ IF ~ModelExists(files, model_path)
       THEN /\ last' = BatchInference("predict_lambdas_for_games", order, model_path,
                                      "none", NoneDone(payload_cache))
            /\ UNCHANGED payload_cache
       ELSE \E loaded \in {xgb_load_model(files, model_path)} :
               IF loaded.raised # "none"
               THEN /\ last' = BatchInference("predict_lambdas_for_games", order,
                                              model_path, loaded.raised,
                                              NoneDone(payload_cache))
                    /\ UNCHANGED payload_cache
               ELSE \E done \in PredictOver(order, NoneDone(payload_cache),
                                            POISSON_FEATURE_COLUMNS, Lambdas, FALSE) :
                       /\ last' = BatchInference("predict_lambdas_for_games", order,
                                                 model_path, done.raised, done)
                       /\ payload_cache' = done.cache
    /\ UNCHANGED <<games, game_statistics, request_count, files>>

\* predict_probabilities_for_games(games, model_path, feature_columns=None)
PredictProbabilitiesForGames(order, model_path) ==
    /\ IF ~PathExists(files, model_path)
       THEN /\ last' = BatchInference("predict_probabilities_for_games", order,
                                      model_path, "none", NoneDone(payload_cache))
            /\ UNCHANGED payload_cache
       ELSE \E done \in PredictOver(order, NoneDone(payload_cache),
                                    XG_INPUT_COLUMNS, Probabilities, TRUE) :
               /\ last' = BatchInference("predict_probabilities_for_games", order,
                                         model_path, done.raised, done)
               /\ payload_cache' = done.cache
    /\ UNCHANGED <<games, game_statistics, request_count, files>>

(* Inference is run with the two model files both absent or both present, on *)
(* stores of one pairing: two fixtures of the window stores, one of them      *)
(* without a competition or a kickoff, or up to MaxBatch fixtures of the      *)
(* average stores, or the two finished fixtures of NanStore. A batch is a     *)
(* list of up to MaxBatch stored fixtures.                                    *)

\* a statistics list whose possession reads "nan", stored as it was received
NanPossession ==
    <<StatItem(<<"B","a","l","l"," ","P","o","s","s","e","s","s","i","o","n">>,
               <<"n","a","n">>)>>

\* two finished fixtures of one pairing, the home side of the first with NanPossession
NanStore ==
    <<{GameRow(1, 1, 1, 2, 1, "FT", 1, 0), GameRow(2, 1, 1, 2, 2, "FT", 2, 1)},
      <<StatisticsRow(1, 1, NanPossession)>>>>

MaxBatch == 2

ModelFiles ==
    {NoFiles,
     WriteFile(WriteFile(NoFiles, "gemini_poisson.json", train_poisson_model(<<>>, <<>>)),
               "gemini_xg.pkl", [kind |-> "LogisticRegression"])}

\* the lists of up to MaxBatch distinct fixtures of the store
Batches ==
    {order \in UNION {[1..n -> games] : n \in 0..MaxBatch} :
        \A i, j \in 1..Len(order) : i # j => order[i] # order[j]}

InitPredict ==
    /\ \/ /\ games \in {s \in WindowStores :
                          /\ Cardinality(s) = 2
                          /\ \A g \in s : g.home_team_id = 1 /\ g.away_team_id = 2
                          /\ \E g \in s : g.competition_id = None \/ g.kickoff = None}
          /\ game_statistics = <<>>
       \/ \E store \in AverageStores :
             /\ Cardinality(store[1]) <= MaxBatch
             /\ games = store[1]
             /\ game_statistics = store[2]
       \/ games = NanStore[1] /\ game_statistics = NanStore[2]
    /\ payload_cache = <<>>
    /\ request_count = 0
    /\ files \in ModelFiles
    /\ last = NoCall

(* SpecPredict: the expected-goals route, single fixtures and batches. *)

NextPredict ==
    \/ \E game \in games : PredictLambdaForGame(game, "gemini_poisson.json")
    \/ \E order \in Batches : PredictLambdasForGames(order, "gemini_poisson.json")

SpecPredict == InitPredict /\ [][NextPredict]_vars

(* SpecClassify: the classifier route, single fixtures and batches. *)

NextClassify ==
    \/ \E game \in games : PredictProbabilityForGame(game, "gemini_xg.pkl")
    \/ \E order \in Batches : PredictProbabilitiesForGames(order, "gemini_xg.pkl")

SpecClassify == InitPredict /\ [][NextClassify]_vars

(* SpecInfer: single-fixture inference on both routes. *)

NextInfer ==
    \E game \in games :
        \/ PredictLambdaForGame(game, "gemini_poisson.json")
        \/ PredictProbabilityForGame(game, "gemini_xg.pkl")

SpecInfer == InitPredict /\ [][NextInfer]_vars

-----------------------------------------------------------------------------
(* Properties of the dataset builder *)

DatasetBuilt == last.op = "build_dataset_rows" /\ ~last.raised

\* the fixtures build_dataset_rows is to make rows of
QualifyingDataset(competition_id) ==
    {g \in games : /\ g.competition_id = competition_id
                   /\ g.status \in {"FT", "AET", "AWD", "WO"}
                   /\ g.kickoff # None}

\* one row per source fixture, the sources distinct, qualifying and in ascending
\* kickoff order, and the file, if one was asked for, holding the rows in order
OneRowPerSource ==
    /\ Len(last.rows) = Len(last.sources)
    /\ \A i \in 1..Len(last.sources) :
          last.sources[i] \in QualifyingDataset(last.competition_id)
    /\ \A i, j \in 1..Len(last.sources) : i < j =>
          /\ last.sources[i] # last.sources[j]
          /\ last.sources[i].kickoff <= last.sources[j].kickoff
    /\ last.output_path # NoPath =>
          /\ PathExists(files, last.output_path)
          /\ Len(files[last.output_path].rows) = Len(last.rows)

(* C19 as stated: build_dataset_rows yields one row for each finished fixture *)
(* of the competition that has a kickoff, in ascending kickoff order, and     *)
(* with limit = L, for every L >= 0, the rows of the L most recent ones.      *)
C19_LimitKeepsTheMostRecent ==
    DatasetBuilt =>
        /\ OneRowPerSource
        /\ last.limit = None =>
              SeqRange(last.sources) = QualifyingDataset(last.competition_id)
        /\ last.limit # None =>
              IsFirstN(Reverse(last.sources), QualifyingDataset(last.competition_id),
                       last.limit)

(* C19: build_dataset_rows yields, and writes, one row for each finished      *)
(* fixture of the competition that has a kickoff, in ascending kickoff order; *)
(* with limit = L >= 1 the rows are those of the L most recent such fixtures, *)
(* all when fewer exist, still ascending; a limit of 0 is no limit.           *)
C19_OneRowPerFinishedFixture ==
    DatasetBuilt =>
        /\ OneRowPerSource
        /\ last.limit = None \/ last.limit = 0 =>
              SeqRange(last.sources) = QualifyingDataset(last.competition_id)
        /\ last.limit # None /\ last.limit >= 1 =>
              IsFirstN(Reverse(last.sources), QualifyingDataset(last.competition_id),
                       last.limit)

\* three fixtures qualify and limit 2 keeps the two most recent, in a file
C19_Witness ==
    /\ DatasetBuilt
    /\ last.limit = 2
    /\ last.output_path # NoPath
    /\ Cardinality(QualifyingDataset(last.competition_id)) = 3
    /\ Len(last.rows) = 2
    /\ last.sources[1].kickoff = 2
    /\ last.sources[2].kickoff = 3

\* the field of row i in column k of the file written by the last build
WrittenField(i, k) == files[last.output_path].rows[i][k]

(* C20: in every dataset row a missing feature value is the empty string and  *)
(* a computed value, 0 included, is that number: a field of the file is empty *)
(* if and only if the feature was missing, and reads back as the value.       *)
C20_EmptyFieldIffMissing ==
    DatasetBuilt =>
        \A i \in 1..Len(last.rows) : \A k \in SeqRange(fieldnames) :
            /\ last.rows[i][k] = Blank <=> last.raw[i][k] = None
            /\ last.raw[i][k] # None => last.rows[i][k] = last.raw[i][k]
            /\ last.output_path # NoPath =>
                  /\ WrittenField(i, k) = <<>> <=> last.raw[i][k] = None
                  /\ last.raw[i][k] # None =>
                        PyFloat(WrittenField(i, k)) =
                            [kind |-> "num",
                             val |-> IF k \in SeqRange(all_feature_columns)
                                     THEN last.raw[i][k] ELSE last.raw[i][k] * Scale]

\* a written row with a missing feature, a feature computed as 0 and a target 0
C20_Witness ==
    /\ DatasetBuilt
    /\ last.output_path # NoPath
    /\ \E i \in 1..Len(last.rows) :
          /\ last.raw[i]["home_possession_avg_5"] = None
          /\ WrittenField(i, "home_possession_avg_5") = <<>>
          /\ last.raw[i]["home_shots_on_goal_avg_5"] = 0
          /\ WrittenField(i, "home_shots_on_goal_avg_5") = <<"0", ".", "0">>
          /\ last.raw[i]["total_goals_actual"] = 0
          /\ WrittenField(i, "total_goals_actual") = <<"0">>

-----------------------------------------------------------------------------
(* Properties of the loaders and of the training commands *)

SplitterOps == {"load_dataset_for_validation", "load_dataset_split"}

\* the field is a number to pandas
IsNumber(text) == text # <<>> /\ PyFloat(text).kind = "num"

\* the index labels, in file order, of the rows with a number in every one of columns
UsableRows(file, columns) ==
    SelectSeq([i \in 1..Len(file.rows) |-> i - 1],
              LAMBDA label : \A c \in columns : IsNumber(file.rows[label + 1][c]))

\* the usable rows of the dataset the last splitting loader was called on
UsableOfLast ==
    UsableRows(files[last.dataset],
               IF last.op = "load_dataset_for_validation"
               THEN {"total_goals_actual", "is_over_2_5"}
               ELSE {"is_over_2_5"})

(* C15: when the split succeeds on N usable rows with ratio r, the training   *)
(* partition is the first floor(N*r) usable rows in input order and the test  *)
(* partition the remaining ones in input order: disjoint, together every      *)
(* usable row, and every training row before every test row.                  *)
C15_SplitIsTheFirstFloor ==
    (last.op \in SplitterOps /\ last.loaded.raised = "none") =>
        /\ Len(last.loaded.train_index)
               = (Len(UsableOfLast) * last.train_ratio) \div RatioScale
        /\ last.loaded.train_index \o last.loaded.test_index = UsableOfLast
        /\ Len(last.loaded.X_train) = Len(last.loaded.train_index)
        /\ Len(last.loaded.X_test) = Len(last.loaded.test_index)
        /\ \A i \in 1..Len(last.loaded.train_index) :
              \A j \in 1..Len(last.loaded.test_index) :
                  last.loaded.train_index[i] < last.loaded.test_index[j]

(* C16: for any number of usable rows and any train ratio, r <= 0 and r >= 1  *)
(* included, the splitting loaders either raise or return two non-empty       *)
(* partitions, and no training is attempted on an empty partition.            *)
C16_SplitRaisesOrBothNonEmpty ==
    /\ (last.op \in SplitterOps /\ last.loaded.raised = "none") =>
          /\ Len(last.loaded.train_index) > 0
          /\ Len(last.loaded.test_index) > 0
    /\ (last.op \in {"validate_gemini_poisson", "train_gemini_xg_classifier"}
        /\ last.trained) =>
          /\ Len(last.loaded.train_index) > 0
          /\ Len(last.loaded.test_index) > 0

LoaderOps == {"load_dataset", "xg_load_dataset"} \cup SplitterOps

TrainerOps == {"train_gemini_poisson", "validate_gemini_poisson",
               "train_gemini_xg_classifier"}

\* the dataset the last loader or trainer was given lacks a column of the schema
SchemaColumnAbsent ==
    /\ last.op \in LoaderOps \cup TrainerOps
    /\ PathExists(files, last.dataset)
    /\ SeqRange(fieldnames) \ SeqRange(files[last.dataset].columns) # {}

(* C17: when any column of the dataset schema (a core feature, an extended    *)
(* feature, the target, the label) is absent from the CSV, every loader       *)
(* aborts with an error and no training command trains or saves a model.      *)
C17_AbsentColumnAbortsEveryLoader ==
    SchemaColumnAbsent =>
        /\ last.loaded.raised = "ValueError"
        /\ last.op \in TrainerOps => ~last.trained /\ ~last.saved

\* the reports of the last training run of the expected-goals model
PoissonReports ==
    IF last.op = "train_gemini_poisson" THEN <<last>>
    ELSE IF last.op = "train_all_gemini_competitions" THEN last.reports
    ELSE <<>>

\* a report of a dataset with no usable row
ZeroUsable(report) == report.loaded.raised = "none" /\ Len(report.loaded.y) = 0

-----------------------------------------------------------------------------
(* Properties of inference *)

\* none of the five windows of the fixture holds a prior fixture
NoHistory(w) ==
    w.hh5 = <<>> /\ w.aa5 = <<>> /\ w.hh10 = <<>> /\ w.aa10 = <<>> /\ w.h2h = <<>>

(* C11: predict_lambda_for_game returns None whenever the features of the     *)
(* fixture could not be computed, a fixture without any prior windowed        *)
(* fixture included, and otherwise a single non-negative number.              *)
C11_NoneWithoutHistory ==
    last.op = "predict_lambda_for_game" =>
        IF ~last.queried \/ NoHistory(last.windows)
        THEN last.result = None
        ELSE last.result # None /\ last.result >= 0

ExpectedGoalsOps == {"predict_lambda_for_game", "predict_lambdas_for_games"}

\* the last call was an inference of the expected-goals route without its model file
ModelAbsent == last.op \in ExpectedGoalsOps /\ ~PathExists(files, last.model_path)

(* C12: when the model file is absent, predict_lambda_for_game returns None   *)
(* and predict_lambdas_for_games the empty list, for every fixture, without   *)
(* raising and without computing features: no window is queried and no        *)
(* statistic is read into the cache.                                          *)
C12_AbsentModelGivesNothing ==
    [][ModelAbsent' =>
          /\ last'.raised = "none"
          /\ ~last'.queried
          /\ last'.X = <<>>
          /\ IF last'.op = "predict_lambda_for_game" THEN last'.result = None
             ELSE last'.result = <<>>
          /\ payload_cache' = payload_cache]_vars

\* a batch of two fixtures whose features can be computed met no model file
C12_Witness ==
    /\ last.op = "predict_lambdas_for_games"
    /\ ~PathExists(files, last.model_path)
    /\ Len(last.order) = 2
    /\ \A g \in games : ~RawRefuses(g, TRUE, TRUE)
    /\ last.result = <<>>

(* C13: when the classifier file is absent, predict_probability_for_game      *)
(* gives its caller None for every fixture, those whose features can be       *)
(* computed included, and does not raise.                                     *)
C13_AbsentClassifierGivesNone ==
    (last.op = "predict_probability_for_game" /\ ~PathExists(files, last.model_path)) =>
        last.raised = "none" /\ last.result = None

\* the dataset file holding the one row build_dataset_rows writes for row_raw
RowAsDataset(row_raw) ==
    WriteFile(NoFiles, "gemini_dataset.csv", CsvFile(<<DatasetRow(row_raw)>>))

\* a single-fixture inference computed the features of a fixture with a result
InferredWithTarget ==
    /\ last.op \in {"predict_lambda_for_game", "predict_probability_for_game"}
    /\ last.queried
    /\ last.row["total_goals_actual"] # None

(* C14: a missing feature value becomes 0.0 in the model input in the same    *)
(* way in training and in inference, on both routes: the input built at       *)
(* inference from a raw feature row equals, column by column, the input a     *)
(* training loader makes of that row once written to the dataset CSV.         *)
C14_InferenceInputIsTrainingInput ==
    InferredWithTarget =>
        IF last.op = "predict_lambda_for_game"
        THEN load_dataset(RowAsDataset(last.row), "gemini_dataset.csv").X = <<last.X>>
        ELSE xg_load_dataset(RowAsDataset(last.row), "gemini_dataset.csv").X = <<last.X>>

-----------------------------------------------------------------------------
(* Floating-point numbers of ml_gemini.poisson_probability.                  *)
(* A float is [c |-> "num", m, e], the number m * 10^e with a mantissa of     *)
(* four decimal digits (1000 <= |m| <= 9999, or m = 0), every operation       *)
(* rounding its result to such a number; [c |-> "inf"] and [c |-> "nan"] are  *)
(* the non-finite floats.  The range is that of a binary64: a result above    *)
(* 1.797e308 is inf, one below 1e-324 is 0.                                   *)

FNum(m, e) == [c |-> "num", m |-> m, e |-> e]
FZero == FNum(0, 0)
FOne == FNum(1000, 0 - 3)
FInf == [c |-> "inf"]
FNan == [c |-> "nan"]
OverflowError == [c |-> "OverflowError"]

Abs(n) == IF n >= 0 THEN n ELSE 0 - n

\* a normalised mantissa and exponent brought into the range of a binary64
Fit(m, e) ==
    IF e + 3 > 308 \/ (e + 3 = 308 /\ Abs(m) > 1797) THEN FInf
    ELSE IF e + 3 < 0 - 324 THEN FZero
    ELSE FNum(m, e)

\* the float nearest to m * 10^e
RECURSIVE Norm(_, _)
Norm(m, e) ==
    IF m = 0 THEN FZero
    ELSE IF Abs(m) >= 10000 THEN Norm(RoundDiv(m, 10), e + 1)
    ELSE IF Abs(m) < 1000 THEN Norm(m * 10, e - 1)
    ELSE Fit(m, e)

FromInt(n) == Norm(n, 0)

\* n / 2 as a float
FromHalves(n) == Norm(5 * n, 0 - 1)

FNeg(a) == IF a.c = "num" THEN FNum(0 - a.m, a.e) ELSE a

\* a * b of two floats (inf * 0 is nan)
Product(a, b) ==
    IF a.c = "nan" \/ b.c = "nan" THEN FNan
    ELSE IF a.c = "inf" \/ b.c = "inf"
         THEN IF a = FZero \/ b = FZero THEN FNan ELSE FInf
    ELSE Norm(a.m * b.m, a.e + b.e)

FMul(a, b) == CHOOSE r \in {Product(x, y) : x \in {a}, y \in {b}} : TRUE

\* a / b of a float by a finite float b > 0
Quotient(a, b) ==
    IF a.c # "num" THEN a
    ELSE Norm((a.m * 10000) \div b.m, a.e - b.e - 4)

FDiv(a, b) == CHOOSE r \in {Quotient(x, y) : x \in {a}, y \in {b}} : TRUE

RECURSIVE Pow10(_)
Pow10(d) == IF d = 0 THEN 1 ELSE 10 * Pow10(d - 1)

\* a + b of two floats, neither of them -inf
Sum(a, b) ==
    IF a.c = "nan" \/ b.c = "nan" THEN FNan
    ELSE IF a.c = "inf" \/ b.c = "inf" THEN FInf
    ELSE IF a.m = 0 THEN b
    ELSE IF b.m = 0 THEN a
    ELSE IF a.e >= b.e
         THEN IF a.e - b.e > 4 THEN a ELSE Norm(a.m * Pow10(a.e - b.e) + b.m, b.e)
         ELSE IF b.e - a.e > 4 THEN b ELSE Norm(b.m * Pow10(b.e - a.e) + a.m, a.e)

FAdd(a, b) == CHOOSE r \in {Sum(x, y) : x \in {a}, y \in {b}} : TRUE

\* a - b of two finite floats, or of a finite float and nan
FSub(a, b) == FAdd(a, FNeg(b))

\* a < 0 of a float (false of nan)
FNegative(a) == a.c = "num" /\ a.m < 0

\* lam ** k of a float by an int k >= 0, by squaring: x ** 0 is 1.0 for every
\* x, and a finite lam whose power leaves the range raises OverflowError
RECURSIVE PowOf(_, _)
PowOf(lam, k) ==
    IF k = 0 THEN FOne
    ELSE IF k % 2 = 1 THEN FMul(PowOf(lam, k - 1), lam)
    ELSE CHOOSE r \in {FMul(h, h) : h \in {PowOf(lam, k \div 2)}} : TRUE

FPow(lam, k) ==
    CHOOSE r \in {IF lam.c = "num" /\ p.c = "inf" THEN OverflowError ELSE p :
                    p \in {PowOf(lam, k)}} : TRUE

\* exp(-1/2)
ExpMinusHalf == FNum(6065, 0 - 4)

\* exp(-n / 2), by squaring
RECURSIVE ExpMinusHalves(_)
ExpMinusHalves(n) ==
    IF n = 0 THEN FOne
    ELSE IF n % 2 = 1 THEN FMul(ExpMinusHalf, ExpMinusHalves(n - 1))
    ELSE CHOOSE r \in {FMul(h, h) : h \in {ExpMinusHalves(n \div 2)}} : TRUE

\* the number of halves in a float 0 <= lam < 1000 that is a multiple of 1/2
Halves(lam) ==
    IF lam.e >= 0 THEN 2 * lam.m * Pow10(lam.e) ELSE (2 * lam.m) \div Pow10(0 - lam.e)

\* math.exp(-lam) of a float lam >= 0, or nan: 0.0 from about 745.2 on
ExpNeg(lam) ==
    IF lam.c = "nan" THEN FNan
    ELSE IF lam.c = "inf" THEN FZero
    ELSE IF lam.m # 0 /\ lam.e + 3 >= 3 THEN FZero
    ELSE ExpMinusHalves(Halves(lam))

\* lo * (lo + 1) * ... * hi as a float, 1 when hi < lo
RECURSIVE ProductOfInts(_, _)
ProductOfInts(lo, hi) ==
    IF hi < lo THEN FOne
    ELSE IF hi = lo THEN FromInt(lo)
    ELSE FMul(ProductOfInts(lo, (lo + hi) \div 2),
              ProductOfInts((lo + hi) \div 2 + 1, hi))

\* math.factorial(k) as the float the division makes of it
Factorial(k) == ProductOfInts(1, k)

-----------------------------------------------------------------------------
(* ml_gemini.poisson_probability *)

\* the largest k poisson_pmf computes a probability for
KLimit == 100

poisson_pmf(k, lam) ==
    IF FNegative(lam) \/ k < 0 THEN FZero
    ELSE IF k > KLimit THEN FZero
    ELSE CHOOSE r \in {IF p = OverflowError THEN OverflowError
                        ELSE FDiv(FMul(p, ExpNeg(lam)), Factorial(k)) :
                        p \in {FPow(lam, k)}} : TRUE

prob_over_2_5(lam) ==
    IF poisson_pmf(2, lam) = OverflowError THEN OverflowError
    ELSE FSub(FOne, FAdd(FAdd(poisson_pmf(0, lam), poisson_pmf(1, lam)),
                         poisson_pmf(2, lam)))

poisson_probabilities(lam) ==
    IF poisson_pmf(2, lam) = OverflowError THEN OverflowError
    ELSE [c |-> "dict", lambda |-> lam,
          p0 |-> poisson_pmf(0, lam), p1 |-> poisson_pmf(1, lam),
          p2 |-> poisson_pmf(2, lam), prob_over_2_5 |-> prob_over_2_5(lam)]

\* The inputs: every k from -1 to MaxSmallK, a k in the middle, the limit and
\* the k after it; every multiple of 1/2 up to MaxHalves / 2 and 10, about the
\* underflow of exp (700, 800), where lam ** 100 overflows (2000), where
\* lam ** 2 does (1e155), inf, nan and a negative lambda.
MaxSmallK == 3
MaxHalves == 6

PmfKs == (0 - 1 .. MaxSmallK) \cup {50, KLimit, KLimit + 1}

PmfLambdas ==
    {FromHalves(n) : n \in 0..MaxHalves}
        \cup {FromInt(10), FromInt(700), FromInt(800), FromInt(2000),
              FNum(1000, 152), FInf, FNan, FromInt(0 - 1)}

PoissonPmf(k, lam) ==
    /\ last' = [op |-> "poisson_pmf", k |-> k, lam |-> lam,
                result |-> poisson_pmf(k, lam)]
    /\ UNCHANGED <<games, game_statistics, payload_cache, request_count, files>>

ProbOver25(lam) ==
    /\ last' = [op |-> "prob_over_2_5", lam |-> lam, result |-> prob_over_2_5(lam)]
    /\ UNCHANGED <<games, game_statistics, payload_cache, request_count, files>>

PoissonProbabilities(lam) ==
    /\ last' = [op |-> "poisson_probabilities", lam |-> lam,
                result |-> poisson_probabilities(lam)]
    /\ UNCHANGED <<games, game_statistics, payload_cache, request_count, files>>

(* SpecPoisson: the three functions of poisson_probability on the inputs above. *)
InitPoisson ==
    /\ games = {}
    /\ game_statistics = <<>>
    /\ payload_cache = <<>>
    /\ request_count = 0
    /\ files = NoFiles
    /\ last = NoCall

NextPoisson ==
    \/ \E k \in PmfKs, lam \in PmfLambdas : PoissonPmf(k, lam)
    \/ \E lam \in PmfLambdas : ProbOver25(lam)
    \/ \E lam \in PmfLambdas : PoissonProbabilities(lam)

SpecPoisson == InitPoisson /\ [][NextPoisson]_vars

-----------------------------------------------------------------------------
(* Properties of poisson_probability *)

\* lam >= 0 of a float (false of nan)
FNonNegative(a) == a.c = "inf" \/ (a.c = "num" /\ a.m >= 0)

\* two finite floats less than 1e-3 apart: a few units in the last place of a
\* probability, as 1e-9 is to a binary64
FClose(a, b) ==
    /\ a.c = "num"
    /\ b.c = "num"
    /\ FSub(a, b).m = 0 \/ FSub(a, b).e + 3 < 0 - 3

\* (lam / lo) * ... * (lam / hi), 1 when hi < lo
RECURSIVE ProductOfRatios(_, _, _)
ProductOfRatios(lam, lo, hi) ==
    IF hi < lo THEN FOne
    ELSE IF hi = lo THEN FDiv(lam, FromInt(lo))
    ELSE FMul(ProductOfRatios(lam, lo, (lo + hi) \div 2),
              ProductOfRatios(lam, (lo + hi) \div 2 + 1, hi))

\* lam^k e^(-lam) / k! of a finite lam >= 0 and 0 <= k <= KLimit, as the
\* product of e^(-lam) and the ratios lam / i, no power of lam being formed;
\* where e^(-lam) is below the range of a float, so is the value
PmfValue(k, lam) ==
    IF ExpNeg(lam) = FZero THEN FZero
    ELSE FMul(ExpNeg(lam), ProductOfRatios(lam, 1, k))

(* C21: for every lambda >= 0 poisson_probabilities returns p0, p1, p2 and     *)
(* prob_over_2_5 that add up to 1, p_k being lambda^k e^(-lambda) / k! and     *)
(* prob_over_2_5 being 1 - (p0 + p1 + p2); prob_over_2_5 is 0 for lambda = 0.  *)
C21_ProbabilitiesAddUpToOne ==
    (last.op = "poisson_probabilities" /\ FNonNegative(last.lam)) =>
        /\ last.result.c = "dict"
        /\ FClose(FAdd(FAdd(FAdd(last.result.p0, last.result.p1), last.result.p2),
                       last.result.prob_over_2_5), FOne)
        /\ FClose(last.result.p0, PmfValue(0, last.lam))
        /\ FClose(last.result.p1, PmfValue(1, last.lam))
        /\ FClose(last.result.p2, PmfValue(2, last.lam))
        /\ last.result.prob_over_2_5 =
               FSub(FOne, FAdd(FAdd(last.result.p0, last.result.p1), last.result.p2))
        /\ last.lam = FZero => last.result.prob_over_2_5 = FZero

(* C22: poisson_pmf returns 0 whenever lambda < 0, k < 0 or k > 100, and for   *)
(* every other k and finite lambda, k = 100 included, it returns               *)
(* lambda^k e^(-lambda) / k!.                                                  *)
C22_PmfIsTheFormula ==
    (last.op = "poisson_pmf" /\ last.lam.c = "num") =>
        IF FNegative(last.lam) \/ last.k < 0 \/ last.k > KLimit
        THEN last.result = FZero
        ELSE FClose(last.result, PmfValue(last.k, last.lam))

-----------------------------------------------------------------------------
(* Model filenames: resolution, training and the competition page *)

MaxApiId == 3

\* the competition objects a filename is resolved for: None, stored rows, and
\* objects without an api_id, each with every outcome of the registry lookup
CompetitionObjects ==
    {NoCompetition} \cup
        {[pk |-> 1, api_id |-> a, slug |-> sl] :
            a \in {None} \cup 0..MaxApiId, sl \in {NoSlug} \cup LEAGUE_REGISTRY}

GetModelFilenameForCompetition(competition) ==
    /\ last' = [op |-> "get_model_filename_for_competition", competition |-> competition,
                result |-> get_model_filename_for_competition(competition)]
    /\ UNCHANGED <<games, game_statistics, payload_cache, request_count, files>>

GetXgModelFilenameForCompetition(competition) ==
    /\ last' = [op |-> "get_xg_model_filename_for_competition",
                competition |-> competition,
                result |-> get_xg_model_filename_for_competition(competition)]
    /\ UNCHANGED <<games, game_statistics, payload_cache, request_count, files>>

\* what the page of a competition got from its model
PageOdds(pk, filename, found, raised, rows) ==
    [op |-> "competition_detail", pk |-> pk, model_path |-> filename, found |-> found,
     raised |-> raised, result |-> rows]

\* competition_detail(request, pk), its expected-goals block: page_games being
\* the fixtures of the page, in the order of the page
CompetitionDetail(pk, page_games) ==
    /\ \E filename \in {get_model_filename_for_competition(CompetitionRow(pk))} :
          IF page_games = <<>> \/ filename = NoPath \/ ~PathExists(files, filename)
          THEN /\ last' = PageOdds(pk, filename, FALSE, "none", <<>>)
               /\ UNCHANGED payload_cache
          ELSE \E done \in PredictOver(page_games, NoneDone(payload_cache),
                                       POISSON_FEATURE_COLUMNS, Lambdas, FALSE) :
                  /\ last' = PageOdds(pk, filename, TRUE, done.raised, done.rows)
                  /\ payload_cache' = done.cache
    /\ UNCHANGED <<games, game_statistics, request_count, files>>

\* the pages of a competition: lists of distinct fixtures of it
Pages(pk) == {order \in Batches : \A i \in 1..Len(order) : order[i].competition_id = pk}

(* SpecNames: filenames resolved, models trained per competition and pages   *)
(* shown, on stores of two finished fixtures of one pairing, in one or in two *)
(* competitions, or of the fixtures of an average store.                      *)
InitNames ==
    /\ \/ /\ games \in {s \in WindowStores :
                          /\ Cardinality(s) = 2
                          /\ \A g \in s : /\ g.home_team_id = 1 /\ g.away_team_id = 2
                                          /\ g.competition_id # None /\ g.kickoff # None
                                          /\ g.status = "FT"}
          /\ game_statistics = <<>>
       \/ \E store \in AverageStores :
             /\ Cardinality(store[1]) \in 1..MaxBatch
             /\ games = store[1]
             /\ game_statistics = store[2]
    /\ payload_cache = <<>>
    /\ request_count = 0
    /\ files = NoFiles
    /\ last = NoCall

NextNames ==
    \/ \E competition \in CompetitionObjects : GetModelFilenameForCompetition(competition)
    \/ \E competition \in CompetitionObjects : GetXgModelFilenameForCompetition(competition)
    \/ TrainAllGeminiCompetitions(1)
    \/ \E pk \in Competitions : \E page_games \in Pages(pk) : CompetitionDetail(pk, page_games)

SpecNames == InitNames /\ [][NextNames]_vars

\* <prefix>_<api_id>.<ext>
NameOfApiId(prefix, api_id, ext) == prefix \o "_" \o ToString(api_id) \o ext

\* the filename the claim gives a competition object, by the prefix and the
\* extension of the model and its filename of a registry slug
FilenameOf(competition, prefix, ext, of_slug) ==
    IF competition # NoCompetition /\ competition.api_id # None
    THEN NameOfApiId(prefix, competition.api_id, ext)
    ELSE IF competition # NoCompetition /\ competition.slug # NoSlug THEN of_slug
    ELSE NoPath

\* train_all_gemini_competitions has just saved a model for the competition
SavedFor(pk) ==
    /\ last.op = "train_all_gemini_competitions"
    /\ \E i \in 1..Len(last.reports) :
          /\ last.reports[i].dataset = CompetitionDatasetPath(pk)
          /\ last.reports[i].saved

(* C23: a competition with an api_id resolves to <prefix>_<api_id>.<ext>, one  *)
(* without to the filename of its registry slug, and one with neither to no    *)
(* filename; competitions of different api_ids never resolve to one filename;  *)
(* and the file train_all_gemini_competitions saves for a competition is the   *)
(* one the competition page resolves and finds.                                *)
C23_FilenamesResolve ==
    /\ last.op = "get_model_filename_for_competition" =>
          /\ last.result = FilenameOf(last.competition, "gemini_poisson", ".json",
                                      get_model_filename_for_league(last.competition.slug))
          /\ \A other \in CompetitionObjects :
                (last.competition.api_id # None /\ other.api_id # None
                    /\ other.api_id # last.competition.api_id) =>
                    get_model_filename_for_competition(other) # last.result
    /\ last.op = "get_xg_model_filename_for_competition" =>
          /\ last.result = FilenameOf(last.competition, "gemini_xg", ".pkl",
                                      get_xg_model_filename_for_league(last.competition.slug))
          /\ \A other \in CompetitionObjects :
                (last.competition.api_id # None /\ other.api_id # None
                    /\ other.api_id # last.competition.api_id) =>
                    get_xg_model_filename_for_competition(other) # last.result
    /\ \A pk \in Competitions :
          SavedFor(pk) =>
              /\ PathExists(files, get_model_filename_for_competition(CompetitionRow(pk)))
              /\ \A other \in Competitions \ {pk} :
                    ~SavedFor(other) =>
                        ~PathExists(files,
                                    get_model_filename_for_competition(CompetitionRow(other)))
    /\ last.op = "competition_detail" =>
          /\ last.model_path = NameOfApiId("gemini_poisson", last.pk, ".json")
          /\ last.found => PathExists(files, last.model_path)

\* a page of a competition shows expected goals from the model trained for it
C23_Witness ==
    /\ last.op = "competition_detail"
    /\ last.found
    /\ Len(last.result) >= 1
    /\ files[last.model_path].kind = "XGBRegressor"

-----------------------------------------------------------------------------
(* The statistics accessor called on its own *)

MaxStatItems == 2

\* type labels as the API writes them, and in another case with blanks around
LabelTotalShots == <<"T","o","t","a","l"," ","S","h","o","t","s">>
LabelShotsOnGoal == <<"S","h","o","t","s"," ","o","n"," ","G","o","a","l">>
LabelShotsOnTarget == <<" ","S","H","O","T","S"," ","O","N"," ","T","A","R","G","E","T"," ">>
LabelPossession == <<"B","a","l","l"," ","P","o","s","s","e","s","s","i","o","n">>

\* the statistics lists _stat_value is called on: up to MaxStatItems items, each
\* of a label above and of a text or the number 0 for its value
AccessorItems ==
    [type : {LabelTotalShots, LabelShotsOnGoal, LabelShotsOnTarget, LabelPossession},
     value : {JStr(<<"1","2">>), JNum(0)}]

AccessorKeywords == {SHOTS_ON_TARGET_KEYWORDS, POSSESSION_KEYWORDS}

AccessorLists == UNION {[1..n -> AccessorItems] : n \in 0..MaxStatItems}

\* The stored values a statistic is coerced from: null, a number, empty and blank
\* text, numeric text with and without a trailing "%", text that is no number,
\* and text that reads as a float that is no finite number.
StatValues ==
    {JNull, JNum(4), JStr(<<>>), JStr(<<" ">>), JStr(<<"1","2">>), JStr(<<"5","5","%">>),
     JStr(<<"4",".","7">>), JStr(<<"a","b","c">>), JStr(<<"i","n","f">>),
     JStr(<<"n","a","n">>)}

\* Two finished fixtures of one pairing, the home side of each with a statistics
\* row holding v1 (v2) for its shots on goal and its possession; v2 is "12".
ValueItems(v) == <<[type |-> LabelShotsOnGoal, value |-> v],
                   [type |-> LabelPossession, value |-> v]>>

ValueGames == <<GameRow(2, 1, 1, 2, 2, "FT", 2, 1), GameRow(1, 1, 1, 2, 1, "FT", 1, 0)>>

ValueStore(v1, v2) ==
    <<{ValueGames[1], ValueGames[2]},
      <<StatisticsRow(1, 1, ValueItems(v1)), StatisticsRow(2, 1, ValueItems(v2))>>>>

StatValue(statistics_list, keywords) ==
    /\ last' = [op |-> "_stat_value", statistics_list |-> statistics_list,
                keywords |-> keywords, result |-> stat_value(statistics_list, keywords)]
    /\ UNCHANGED <<games, game_statistics, payload_cache, request_count, files>>

\* what a coercion or an average leaves to its caller
Coerced(op, value, result) ==
    [op |-> op, value |-> value,
     raised |-> IF result = OverflowRaised THEN "OverflowError" ELSE "none",
     result |-> IF result = OverflowRaised THEN None ELSE result]

ToFloat(value) ==
    /\ last' = Coerced("_to_float", value, to_float(value))
    /\ UNCHANGED <<games, game_statistics, payload_cache, request_count, files>>

ToInt(value) ==
    /\ last' = Coerced("_to_int", value, to_int(value))
    /\ UNCHANGED <<games, game_statistics, payload_cache, request_count, files>>

\* the stored values of a statistic of the home sides of a window
WindowValues(cache, window, keywords) ==
    [i \in 1..Len(window) |->
        stat_value(statistics_payload(cache, window[i].pk, window[i].home_team_id),
                   keywords)]

Averaged(op, values, raised, result) ==
    [op |-> op, values |-> values, raised |-> raised, result |-> result]

\* _team_stat_avg(games, lambda g: g.home_team, POSSESSION_KEYWORDS)
TeamStatAvg(window) ==
    /\ last' = Averaged("_team_stat_avg",
                        WindowValues(payload_cache, window, POSSESSION_KEYWORDS), "none",
                        team_stat_avg_home(payload_cache, window, POSSESSION_KEYWORDS))
    /\ payload_cache' = CacheAfter(payload_cache,
                                   {<<window[i].pk, window[i].home_team_id>> :
                                        i \in 1..Len(window)})
    /\ UNCHANGED <<games, game_statistics, request_count, files>>

\* _shots_avg(games, team) of _get_game_features_raw, team being at home in games
ShotsAvg(window, team_id) ==
    /\ \E vals \in {[i \in 1..Len(window) |->
                        team_shots_on_goal_for_game(payload_cache, window[i], team_id)]} :
          last' = IF \E i \in 1..Len(vals) : vals[i] = OverflowRaised
                  THEN Averaged("_shots_avg",
                                WindowValues(payload_cache, window, SHOTS_ON_TARGET_KEYWORDS),
                                "OverflowError", <<>>)
                  ELSE Averaged("_shots_avg",
                                WindowValues(payload_cache, window, SHOTS_ON_TARGET_KEYWORDS),
                                "none", safe_avg(DropNone(vals)))
    /\ payload_cache' = CacheAfter(payload_cache,
                                   {<<window[i].pk, team_id>> : i \in 1..Len(window)})
    /\ UNCHANGED <<games, game_statistics, request_count, files>>

(* SpecStat: _stat_value, _to_float and _to_int called on the lists and values *)
(* above, and the averages taken over the two fixtures of a value store.       *)
InitStat ==
    /\ \E v1 \in StatValues :
          /\ games = ValueStore(v1, JStr(<<"1","2">>))[1]
          /\ game_statistics = ValueStore(v1, JStr(<<"1","2">>))[2]
    /\ payload_cache = <<>>
    /\ request_count = 0
    /\ files = NoFiles
    /\ last = NoCall

NextStat ==
    \/ \E statistics_list \in AccessorLists, keywords \in AccessorKeywords :
          StatValue(statistics_list, keywords)
    \/ \E value \in StatValues : ToFloat(value)
    \/ \E value \in StatValues : ToInt(value)
    \/ TeamStatAvg(ValueGames)
    \/ ShotsAvg(ValueGames, 1)

SpecStat == InitStat /\ [][NextStat]_vars

\* the places of a list whose label holds a keyword, whatever the case of either
Matching(statistics_list, keywords) ==
    {i \in 1..Len(statistics_list) :
        \E k \in 1..Len(keywords) :
            Contains(Lower(statistics_list[i].type), Lower(keywords[k]))}

(* C24: _stat_value returns the value of the first entry, in list order, whose *)
(* type label contains one of the keywords as a substring in any case, and     *)
(* None, never 0, when the list is empty or no label matches.                  *)
C24_FirstMatchingValue ==
    last.op = "_stat_value" =>
        IF Matching(last.statistics_list, last.keywords) = {}
        THEN last.result = NoValue
        ELSE \E i \in Matching(last.statistics_list, last.keywords) :
                /\ \A j \in Matching(last.statistics_list, last.keywords) : i <= j
                /\ last.result = last.statistics_list[i].value

\* only "Total Shots" = "12" is there and the shots on target are asked for
C24_Witness ==
    /\ last.op = "_stat_value"
    /\ last.statistics_list = <<[type |-> LabelTotalShots, value |-> JStr(<<"1","2">>)]>>
    /\ last.keywords = SHOTS_ON_TARGET_KEYWORDS
    /\ last.result = NoValue

\* a later entry matches, an earlier one does not, and the later value is returned
C24_SecondEntryMatches ==
    /\ last.op = "_stat_value"
    /\ Matching(last.statistics_list, last.keywords) = {2}
    /\ last.result = last.statistics_list[2].value

\* a stored value that reads as a finite number once blanks and "%" are dropped
Coercible(value) ==
    \/ value.t = "num"
    \/ value.t = "str" /\ PyFloat(RemoveChar(Strip(value.s), "%")).kind = "num"

\* the values of a window that count for an average, each as a number
RECURSIVE NumbersOf(_, _)
NumbersOf(values, whole) ==
    IF values = <<>> THEN <<>>
    ELSE (IF Coercible(Head(values))
          THEN <<IF whole THEN Truncate(to_float(Head(values)))
                 ELSE to_float(Head(values))>>
          ELSE <<>>) \o NumbersOf(Tail(values), whole)

MeanOfNumbers(numbers) ==
    IF numbers = <<>> THEN <<>> ELSE <<SumSeq(numbers), Len(numbers)>>

(* C25: for any stored value, _to_float and _to_int give a number or None and  *)
(* never raise; a value that is no number counts as missing, so that an        *)
(* average is the sum of the numbers of its window over their count.           *)
C25_CoercionNeverRaises ==
    /\ last.op \in {"_to_float", "_to_int"} =>
          /\ last.raised = "none"
          /\ IF Coercible(last.value) THEN last.result >= 0 ELSE last.result = None
    /\ last.op = "_team_stat_avg" =>
          /\ last.raised = "none"
          /\ last.result = MeanOfNumbers(NumbersOf(last.values, FALSE))
    /\ last.op = "_shots_avg" =>
          /\ last.raised = "none"
          /\ last.result = MeanOfNumbers(NumbersOf(last.values, TRUE))

\* the same of the values that read as finite numbers or as no number at all
FiniteOrNoNumber(value) ==
    value.t # "str" \/ PyFloat(RemoveChar(Strip(value.s), "%")).kind \in {"num", "ValueError"}

C25_HoldsOfFiniteText ==
    /\ (last.op \in {"_to_float", "_to_int"} /\ FiniteOrNoNumber(last.value)) =>
          C25_CoercionNeverRaises
    /\ (last.op \in {"_team_stat_avg", "_shots_avg"}
            /\ \A i \in 1..Len(last.values) : FiniteOrNoNumber(last.values[i])) =>
          C25_CoercionNeverRaises

-----------------------------------------------------------------------------
(* Properties of the shots-on-target-allowed features *)

\* the shots on target a side of a fixture is stored with, as _to_float reads
\* them; None when the side has no such statistic
SideShotsOnTarget(fixture, team_id) ==
    Transform_to_float(stat_value(StatisticsRead(fixture.pk, team_id),
                                  SHOTS_ON_TARGET_KEYWORDS))

\* per fixture of a window, the shots on target of its away (home) side
AwaySideShots(window) ==
    DropNone([i \in 1..Len(window) |->
                 SideShotsOnTarget(window[i], window[i].away_team_id)])

HomeSideShots(window) ==
    DropNone([i \in 1..Len(window) |->
                 SideShotsOnTarget(window[i], window[i].home_team_id)])

(* C26: the shots-on-target-allowed feature of the home team is the average,   *)
(* over its last 5 home fixtures, of the shots on target of the away side of   *)
(* each; that of the away team is the average, over its last 5 away fixtures,  *)
(* of the shots on target of the home side of each.                            *)
C26_AllowedReadsTheOpponent ==
    RawFeaturized =>
        /\ \A i \in 1..Len(last.windows.hh5) :
              last.windows.hh5[i].home_team_id = last.game.home_team_id
        /\ \A i \in 1..Len(last.windows.aa5) :
              last.windows.aa5[i].away_team_id = last.game.away_team_id
        /\ Len(last.windows.hh5) <= 5 /\ Len(last.windows.aa5) <= 5
        /\ last.row["home_shots_allowed_on_target_avg_5"]
               = MeanSeen(AwaySideShots(last.windows.hh5), 1)
        /\ last.row["away_shots_allowed_on_target_avg_5"]
               = MeanSeen(HomeSideShots(last.windows.aa5), 1)

\* the home sides of the windows shot 4 on target and their opponents 0: the
\* home team has allowed 0 and the away team 4
C26_Witness ==
    /\ RawFeaturized
    /\ last.windows.hh5 # <<>>
    /\ last.row["home_shots_on_goal_avg_5"] = 4 * Scale
    /\ last.row["home_shots_allowed_on_target_avg_5"] = 0
    /\ last.row["away_shots_allowed_on_target_avg_5"] = 4 * Scale

-----------------------------------------------------------------------------
(* Properties of the batch inference *)

\* the stored fixture of a primary key
GameOfPk(pk) == CHOOSE g \in games : g.pk = pk

\* the fixtures of a batch whose feature row can be computed, in the order of the batch
Computable(order) ==
    SelectSeq([i \in 1..Len(order) |-> GameOfPk(order[i])],
              LAMBDA g : ~RawRefuses(g, TRUE, TRUE))

\* the model inputs predict_lambda_for_game can build for a fixture: one per
\* choice of its windows
SingleInputs(game) ==
    {InferenceInput(RawRow(game, w, payload_cache) @@ <<>>, POISSON_FEATURE_COLUMNS) :
        w \in WindowChoices(game)}

\* a batch of expected goals was asked for with the model file there
BatchPredicted ==
    /\ last.op = "predict_lambdas_for_games"
    /\ ModelExists(files, last.model_path)

C27_BothPredicted ==
    /\ BatchPredicted
    /\ Len(last.order) = 2
    /\ Len(last.result) = 2
    /\ last.result[1][1] = last.order[1]
    /\ last.result[2][1] = last.order[2]
    /\ last.order[1] > last.order[2]

-----------------------------------------------------------------------------
(* api_football.client.request, call by call, and the syncs that go through it *)

NoKey == ""

\* what becomes of one HTTP request: no response at all (timeout, connection
\* error), a response with an HTTP error status, a response whose JSON has
\* "errors", or a response whose "response" is empty or a list
ApiAnswers == {"no_response", "http_error", "api_error", "empty", "list"}

\* a faulty request: the HTTP call issued whatever the day's count is
RequestUnlimited(count, api_key, answer, midnight) ==
    IF api_key = NoKey
    THEN [raised |-> TRUE, issued |-> FALSE, responded |-> FALSE,
          before |-> count, row |-> count, after |-> count, body |-> "none"]
    ELSE IF answer = "no_response"
    THEN [raised |-> TRUE, issued |-> TRUE, responded |-> FALSE,
          before |-> count, row |-> count, after |-> count, body |-> "none"]
    ELSE [raised |-> answer \in {"http_error", "api_error"}, issued |-> TRUE,
          responded |-> TRUE, before |-> count, row |-> count,
          after |-> increment_request_count(count), body |-> answer]

\* request(method, endpoint, params) with today's row at `count`: whether it
\* raised, whether the HTTP request was issued and answered, the count it found
\* (before), the count of the row it incremented (row: the row of the next day
\* when midnight passes during the HTTP call) and the count it leaves (after)
request(count, api_key, answer, midnight) ==
    IF api_key = NoKey
    THEN [raised |-> TRUE, issued |-> FALSE, responded |-> FALSE,
          before |-> count, row |-> count, after |-> count, body |-> "none"]
    ELSE IF remaining_requests_today(count) <= 0
    THEN [raised |-> TRUE, issued |-> FALSE, responded |-> FALSE,
          before |-> count, row |-> count, after |-> count, body |-> "none"]
    ELSE IF answer = "no_response"
    THEN [raised |-> TRUE, issued |-> TRUE, responded |-> FALSE,
          before |-> count, row |-> count, after |-> count, body |-> "none"]
    ELSE LET row == IF midnight THEN 0 ELSE count
         IN  [raised |-> answer \in {"http_error", "api_error"}, issued |-> TRUE,
              responded |-> TRUE, before |-> count, row |-> row,
              after |-> increment_request_count(row), body |-> answer]

\* Game.prediction, the GamePrediction row of a fixture if it has one
NoPrediction == [exists |-> FALSE, raw |-> "none", odds |-> "none"]

WithPrediction(game, prediction) ==
    [f \in DOMAIN game \cup {"prediction"} |->
        IF f = "prediction" THEN prediction ELSE game[f]]

SetPrediction(rows, pk, prediction) ==
    {IF g.pk = pk THEN [g EXCEPT !.prediction = prediction] ELSE g : g \in rows}

\* sync_fixture_predictions(game.api_id) after its request returned `body`
sync_fixture_predictions(acc, game, body) ==
    IF body = "empty" THEN acc
    ELSE LET stored == CHOOSE g \in acc.games : g.pk = game.pk
         IN  [acc EXCEPT !.games = SetPrediction(@, game.pk,
                                       [stored.prediction EXCEPT !.exists = TRUE,
                                                                 !.raw = "data"]),
                         !.created = @ + (IF stored.prediction.exists THEN 0 ELSE 1),
                         !.updated = @ + (IF stored.prediction.exists THEN 1 ELSE 0)]

\* sync_fixture_odds(game.api_id) after its request returned `body`
sync_fixture_odds(acc, game, body) ==
    IF body = "empty" THEN acc
    ELSE LET stored == CHOOSE g \in acc.games : g.pk = game.pk
             pred == IF stored.prediction.exists THEN stored.prediction
                     ELSE [exists |-> TRUE, raw |-> "empty", odds |-> "none"]
         IN  [acc EXCEPT !.games = SetPrediction(@, game.pk, [pred EXCEPT !.odds = "list"]),
                         !.updated = @ + 1]

\* The loop of sync_predictions_for_games (predictions TRUE) or of
\* sync_odds_for_games over `order`, from acc = [games, count, created, updated,
\* skipped, calls]: every outcome, one per run of answers the API may give.
RECURSIVE SyncOver(_, _, _, _)
SyncOver(order, acc, api_key, predictions) ==
    IF order = <<>> THEN {acc}
    ELSE IF remaining_requests_today(acc.count) <= 0
    THEN SyncOver(Tail(order), [acc EXCEPT !.skipped = @ + 1], api_key, predictions)
    ELSE UNION {LET call == request(acc.count, api_key, answer, midnight)
                    called == [acc EXCEPT !.count = call.after,
                                          !.calls = Append(@, call)]
                IN  SyncOver(Tail(order),
                             IF call.raised THEN [called EXCEPT !.skipped = @ + 1]
                             ELSE IF predictions
                             THEN sync_fixture_predictions(called, Head(order), call.body)
                             ELSE sync_fixture_odds(called, Head(order), call.body),
                             api_key, predictions) :
                answer \in ApiAnswers, midnight \in BOOLEAN}

\* client.request called on its own (get_leagues, get_fixtures, ...)
Request(api_key, answer, midnight) ==
    LET call == request(request_count, api_key, answer, midnight)
    IN  /\ request_count' = call.after
        /\ last' = [op |-> "request", calls |-> <<call>>]
        /\ UNCHANGED <<games, game_statistics, payload_cache, files>>

SyncStart == [games |-> games, count |-> request_count, created |-> 0, updated |-> 0,
              skipped |-> 0, calls |-> <<>>]

\* sync_predictions_for_games(queryset=None, limit=limit)
SyncPredictionsForGames(limit, api_key) ==
    /\ \E order \in OrderByKickoffDesc({g \in games : ~g.prediction.exists}) :
          \E done \in SyncOver(IF limit = None \/ limit = 0 THEN order
                               ELSE Slice(order, limit),
                               SyncStart, api_key, TRUE) :
              /\ games' = done.games
              /\ request_count' = done.count
              /\ last' = [op |-> "sync_predictions_for_games", calls |-> done.calls,
                          created |-> done.created, updated |-> done.updated,
                          skipped |-> done.skipped]
    /\ UNCHANGED <<game_statistics, payload_cache, files>>

\* sync_odds_for_games(queryset=None, limit=limit)
SyncOddsForGames(limit, api_key) ==
    /\ \E order \in OrderByKickoffDesc({g \in games : g.prediction.exists}) :
          \E done \in SyncOver(IF limit = None \/ limit = 0 THEN order
                               ELSE Slice(order, limit),
                               SyncStart, api_key, FALSE) :
              /\ games' = done.games
              /\ request_count' = done.count
              /\ last' = [op |-> "sync_odds_for_games", calls |-> done.calls,
                          created |-> 0, updated |-> done.updated,
                          skipped |-> done.skipped]
    /\ UNCHANGED <<game_statistics, payload_cache, files>>

(* SpecQuota: one caller after another, against an API that answers anything. *)

QuotaStore == {WithPrediction(AverageGame(1, 1), NoPrediction),
               WithPrediction(AverageGame(2, 2), NoPrediction)}

InitQuota ==
    /\ games = QuotaStore
    /\ game_statistics = <<>>
    /\ payload_cache = <<>>
    /\ request_count = 0
    /\ files = NoFiles
    /\ last = NoCall

NextQuota ==
    \/ \E api_key \in {NoKey, "key"}, answer \in ApiAnswers, midnight \in BOOLEAN :
          Request(api_key, answer, midnight)
    \/ \E limit \in {None, 1}, api_key \in {NoKey, "key"} :
          SyncPredictionsForGames(limit, api_key)
    \/ \E limit \in {None, 1}, api_key \in {NoKey, "key"} :
          SyncOddsForGames(limit, api_key)
    \/ \E limit \in {None, 1} : SyncStatsForGames(limit)
    \/ NewDay

SpecQuota == InitQuota /\ [][NextQuota]_vars

\* the client.request calls the last operation made
CallsOfLast ==
    IF last.op \in {"request", "sync_predictions_for_games", "sync_odds_for_games"}
    THEN last.calls ELSE <<>>

\* C28: with one caller after another the stored count never exceeds
\* DAILY_REQUEST_LIMIT: a call issues its HTTP request only below the limit, a
\* call that got a response (an HTTP or API error too) raised the count of the
\* day's row by exactly one, a call without a response left it, and a call
\* rejected for the missing key or the reached limit issued nothing and left
\* the count as it was; the operation leaves the count of its last call.
C28_CountWithinLimit ==
    /\ request_count <= DAILY_REQUEST_LIMIT
    /\ \A i \in 1..Len(CallsOfLast) :
          LET call == CallsOfLast[i]
          IN  /\ call.issued => call.before < DAILY_REQUEST_LIMIT
              /\ call.responded => call.after = call.row + 1
              /\ ~call.responded => call.after = call.before
              /\ ~call.issued => ~call.responded /\ call.raised
              /\ call.after <= DAILY_REQUEST_LIMIT
              /\ i < Len(CallsOfLast) => CallsOfLast[i + 1].before = call.after
    /\ CallsOfLast # <<>> => request_count = CallsOfLast[Len(CallsOfLast)].after

\* a sync whose first request got an error response and whose second request,
\* the last one the day allows, was answered: the count stands at the limit
C28_Witness ==
    /\ last.op = "sync_predictions_for_games"
    /\ Len(last.calls) = 2
    /\ last.calls[1].responded /\ last.calls[1].raised
    /\ last.calls[2].responded /\ ~last.calls[2].raised
    /\ last.calls[2].before = DAILY_REQUEST_LIMIT - 1
    /\ request_count = DAILY_REQUEST_LIMIT

-----------------------------------------------------------------------------
(* api_football.client.request called by two processes at once *)

\* the hourly update_today_results job and a sync started from the web
Processes == {1, 2}

MaxIssued == 4      \* HTTP requests issued in the day, by all processes

\* SpecRace keeps in `last`, for each process, where it stands in request()
\* (pc) and the request_count its increment_request_count() has read (read),
\* and the day's totals of HTTP requests issued and answered.
AtRest == [pc |-> [p \in Processes |-> "idle"], read |-> [p \in Processes |-> 0],
           issued |-> 0, answered |-> 0]

\* request(), up to the HTTP call: remaining_requests_today() read from the row
RequestCheck(p) ==
    /\ last.pc[p] = "idle"
    /\ last.issued < MaxIssued
    /\ last' = [last EXCEPT !.pc[p] = IF remaining_requests_today(request_count) <= 0
                                      THEN "idle" ELSE "http"]
    /\ UNCHANGED <<games, game_statistics, payload_cache, request_count, files>>

\* requests.request(...): the HTTP request is issued and answered, or it raises
RequestHttp(p, responded) ==
    /\ last.pc[p] = "http"
    /\ last' = [last EXCEPT !.pc[p] = IF responded THEN "increment" ELSE "idle",
                            !.issued = @ + 1,
                            !.answered = @ + (IF responded THEN 1 ELSE 0)]
    /\ UNCHANGED <<games, game_statistics, payload_cache, request_count, files>>

\* increment_request_count(): get_or_create reads today's row
IncrementRead(p) ==
    /\ last.pc[p] = "increment"
    /\ last' = [last EXCEPT !.pc[p] = "save", !.read[p] = request_count]
    /\ UNCHANGED <<games, game_statistics, payload_cache, request_count, files>>

\* increment_request_count(): log.request_count += 1; log.save(update_fields=...)
IncrementSave(p) ==
    /\ last.pc[p] = "save"
    /\ request_count' = increment_request_count(last.read[p])
    /\ last' = [last EXCEPT !.pc[p] = "idle", !.read[p] = 0]
    /\ UNCHANGED <<games, game_statistics, payload_cache, files>>

InitRace ==
    /\ games = {}
    /\ game_statistics = <<>>
    /\ payload_cache = <<>>
    /\ request_count = 0
    /\ files = NoFiles
    /\ last = AtRest

NextRace ==
    \E p \in Processes :
        \/ RequestCheck(p)
        \/ RequestHttp(p, TRUE)
        \/ RequestHttp(p, FALSE)
        \/ IncrementRead(p)
        \/ IncrementSave(p)

SpecRace == InitRace /\ [][NextRace]_vars

\* C29: when two processes call client.request at once, in every interleaving
\* no more than DAILY_REQUEST_LIMIT HTTP requests are issued and answered in the
\* day, and once both calls are over the day's request_count equals the number
\* of HTTP requests that were answered (no increment is lost).
C29_NoIncrementLost ==
    /\ last.answered <= DAILY_REQUEST_LIMIT
    /\ (\A p \in Processes : last.pc[p] = "idle") => request_count = last.answered

\* the part of C29 about the count alone
C29_CountIsTheAnswered ==
    (\A p \in Processes : last.pc[p] = "idle") => request_count = last.answered

\* the part of C29 about the limit alone
C29_AnsweredWithinLimit == last.answered <= DAILY_REQUEST_LIMIT

-----------------------------------------------------------------------------
(* ml_gemini.features: the depth-5 and the depth-10 window of one featurization *)

DepthGames == 6     \* finished fixtures of the pairing stored before the last one

\* One pairing in one competition: fixtures 1 and 2 kick off at the same
\* instant, fixture i > 2 at instant i, all finished, the home goals differing
\* from fixture to fixture; the fixture after them is still to be played.
DepthStore ==
    {GameRow(i, 1, 1, 2, Max(i, 2), "FT", i % 4, 1) : i \in 1..DepthGames}
    \cup {GameRow(DepthGames + 1, 1, 1, 2, DepthGames + 1, "NS", None, None)}

(* SpecDepth: the fixtures of the depth store featurized. *)

InitDepth ==
    /\ games = DepthStore
    /\ game_statistics = <<>>
    /\ payload_cache = <<>>
    /\ request_count = 0
    /\ files = NoFiles
    /\ last = NoCall

NextDepth ==
    \E pk \in 1..(DepthGames + 1), for_prediction \in BOOLEAN :
        RawFeaturesOf(pk, for_prediction)

SpecDepth == InitDepth /\ [][NextDepth]_vars

\* C30: within one featurization of a fixture the depth-5 window of a team is
\* exactly the first 5 entries of its depth-10 window, also when several
\* qualifying fixtures share a kickoff time.
C30_Depth5IsPrefixOfDepth10 ==
    (last.op = "get_game_features_raw" /\ last.queried) =>
        /\ last.windows.hh5 = Slice(last.windows.hh10, 5)
        /\ last.windows.aa5 = Slice(last.windows.aa10, 5)

\* the weaker reading of C30: the same fixtures, in whatever order
C30_Depth5HoldsTheSameFixtures ==
    (last.op = "get_game_features_raw" /\ last.queried) =>
        /\ SeqRange(last.windows.hh5) = SeqRange(Slice(last.windows.hh10, 5))
        /\ SeqRange(last.windows.aa5) = SeqRange(Slice(last.windows.aa10, 5))

=============================================================================
